---- MODULE Spec2Model ----
(***************************************************************************)
(* NAP (name, address, phone) audit: the reference search with candidate   *)
(* selection, the name similarity score, the field reconciliation and the  *)
(* per-business and per-batch orchestration of src/nap.py, src/tasks.py    *)
(* and src/wsgi.py.                                                        *)
(*                                                                         *)
(* Text is a sequence of one-character strings, so that the string         *)
(* operations of the code (lower, strip, split, substring test, regular    *)
(* expression substitution) are computed, not assumed.                     *)
(***************************************************************************)
EXTENDS Integers, Sequences, FiniteSets, TLC

VARIABLES
  searchDone,      \* search_google_place has been called
  searchName,      \* its business_name argument
  searchResponse,  \* what request.execute() did
  searchResult     \* the dict it returned

searchVars == <<searchDone, searchName, searchResponse, searchResult>>

VARIABLES
  statusDone,      \* determine_match_status has been called
  statusGbp,       \* its gbp_data argument
  statusWebsite,   \* its website_data argument
  statusYext,      \* its yext_data argument
  statusResult     \* the pair (match_status, action_needed) it returned

statusVars ==
  <<statusDone, statusGbp, statusWebsite, statusYext, statusResult>>

VARIABLES
  business_names,       \* batch_data['business_names'] of process_audit_batch
  index,                \* the position of the loop in business_names (from 1)
  pc,                   \* the step the task is about to take
  cur_gbp_data,         \* gbp_data of the running process_business
  cur_gbp_website_url,  \* its gbp_website_url
  cur_yext_data,        \* its yext_data
  cur_raw_website_data, \* its raw_website_data, what the scrape returned
  cur_website_data,     \* its website_data
  auditor_results,      \* auditor.results
  results,              \* the error rows process_audit_batch collects
  steps                 \* the steps process_business has taken for this business

batchVars ==
  <<business_names, index, pc, cur_gbp_data, cur_gbp_website_url,
    cur_yext_data, cur_raw_website_data, cur_website_data, auditor_results,
    results, steps>>

VARIABLES
  wsgi_names,      \* business_names of wsgi run_audit
  wsgi_index,      \* the position of its loop (from 1)
  wsgi_pc,         \* "idle", "running", then how the endpoint answered
  wsgi_gbp,        \* gbp_data of the last wsgi process_business
  wsgi_website,    \* its website_data
  wsgi_yext,       \* its yext_data
  wsgi_results,    \* self.results of the wsgi auditor
  wsgi_error       \* the message of the exception that ended the audit

wsgiVars ==
  <<wsgi_names, wsgi_index, wsgi_pc, wsgi_gbp, wsgi_website, wsgi_yext,
    wsgi_results, wsgi_error>>

VARIABLES
  callName,        \* the function a single call was made of, "none" before it
  callArgs,        \* the arguments of the call
  callResult,      \* the value it returned
  callRequests     \* the HTTP requests the call made, in order

callVars == <<callName, callArgs, callResult, callRequests>>

VARIABLES
  task_business_names, \* per task: batch_data['business_names']
  task_pc,             \* per task: the step the task is about to take
  task_index,          \* per task: the position of its loop (from 1)
  task_auditor,        \* per task: the NAPAuditor instance it constructed
  task_results,        \* per task: its local list results
  task_return,         \* per task: the 'results' of the dict it returned
  instance_results     \* per NAPAuditor instance: self.results

taskVars ==
  <<task_business_names, task_pc, task_index, task_auditor, task_results,
    task_return, instance_results>>

VARIABLES
  api_url,         \* the url argument of yext make_api_request
  api_pc,          \* the step the call is about to take
  api_attempt,     \* attempt, the loop variable (from 0)
  api_log,         \* what each session.get so far did, in order
  api_result,      \* the value the call returned
  api_raised       \* the class of the exception the call ended with

apiVars == <<api_url, api_pc, api_attempt, api_log, api_result, api_raised>>

vars ==
  <<searchVars, statusVars, batchVars, wsgiVars, callVars, taskVars, apiVars>>

(***************************************************************************)
(* Characters and the string primitives of Python used by the code.        *)
(***************************************************************************)
UpperSeq ==
  <<"A","B","C","D","E","F","G","H","I","J","K","L","M",
    "N","O","P","Q","R","S","T","U","V","W","X","Y","Z">>

LowerSeq ==
  <<"a","b","c","d","e","f","g","h","i","j","k","l","m",
    "n","o","p","q","r","s","t","u","v","w","x","y","z">>

DigitChars == {"0","1","2","3","4","5","6","7","8","9"}

UpperChars == {UpperSeq[i] : i \in 1..Len(UpperSeq)}

LowerChars == {LowerSeq[i] : i \in 1..Len(LowerSeq)}

\* str.lower() on one character
LowerChar(c) ==
  IF c \in UpperChars
    THEN LowerSeq[CHOOSE i \in 1..Len(UpperSeq) : UpperSeq[i] = c]
    ELSE c

\* str.lower()
StrLower(s) == [i \in 1..Len(s) |-> LowerChar(s[i])]

\* \s of the regular expressions and the whitespace of strip() and split()
IsSpace(c) == c \in {" ", "\t", "\n"}

\* \w of the regular expressions
IsWordChar(c) == c \in UpperChars \cup LowerChars \cup DigitChars \cup {"_"}

\* \d of the regular expressions
IsDigit(c) == c \in DigitChars

\* s[lo..hi] (1-based, inclusive); empty when lo > hi
Slice(s, lo, hi) == IF lo > hi THEN << >> ELSE SubSeq(s, lo, hi)

RECURSIVE LStripBy(_, _)
\* str.lstrip(chars) with chars given as a predicate set
LStripBy(s, chars) ==
  IF s # << >> /\ Head(s) \in chars THEN LStripBy(Tail(s), chars) ELSE s

RECURSIVE RStripBy(_, _)
\* str.rstrip(chars)
RStripBy(s, chars) ==
  IF s # << >> /\ s[Len(s)] \in chars
    THEN RStripBy(SubSeq(s, 1, Len(s) - 1), chars)
    ELSE s

\* str.strip(chars)
StripBy(s, chars) == RStripBy(LStripBy(s, chars), chars)

SpaceChars == {" ", "\t", "\n"}

\* str.strip()
Strip(s) == StripBy(s, SpaceChars)

\* s.startswith(t) at offset i (1-based): s[i..i+len(t)-1] = t
MatchesAt(s, t, i) ==
  /\ i >= 1
  /\ i + Len(t) - 1 <= Len(s)
  /\ \A k \in 1..Len(t) : s[i + k - 1] = t[k]

\* a substring test that finds no empty string
Contains_Mutant(s, t) ==
  t # << >> /\ \E i \in 1..(Len(s) + 1) : MatchesAt(s, t, i)

\* t in s  (substring test; the empty string is in every string)
Contains(s, t) == \E i \in 1..(Len(s) + 1) : MatchesAt(s, t, i)

RECURSIVE SplitFrom(_, _, _)
\* str.split(): words separated by runs of whitespace, no empty words
SplitFrom(s, i, cur) ==
  IF i > Len(s)
    THEN IF cur = << >> THEN << >> ELSE <<cur>>
    ELSE IF IsSpace(s[i])
      THEN IF cur = << >>
             THEN SplitFrom(s, i + 1, << >>)
             ELSE <<cur>> \o SplitFrom(s, i + 1, << >>)
      ELSE SplitFrom(s, i + 1, Append(cur, s[i]))

Split(s) == SplitFrom(s, 1, << >>)

RECURSIVE Join(_, _)
\* sep.join(words)
Join(words, sep) ==
  IF words = << >> THEN << >>
  ELSE IF Len(words) = 1 THEN words[1]
  ELSE words[1] \o sep \o Join(Tail(words), sep)

\* ' '.join(s.split())
CollapseSpaces(s) == Join(Split(s), <<" ">>)

RECURSIVE ReplaceFrom(_, _, _, _)
\* str.replace(term, rep): non-overlapping occurrences, left to right
ReplaceFrom(s, term, rep, i) ==
  IF i > Len(s) THEN << >>
  ELSE IF MatchesAt(s, term, i)
    THEN rep \o ReplaceFrom(s, term, rep, i + Len(term))
    ELSE <<s[i]>> \o ReplaceFrom(s, term, rep, i + 1)

StrReplace(s, term, rep) == ReplaceFrom(s, term, rep, 1)

\* \b between s[p-1] and s[p]: exactly one side is a word character
WordBoundary(s, p) ==
  LET left  == p >= 2 /\ p - 1 <= Len(s) /\ IsWordChar(s[p - 1])
      right == p >= 1 /\ p <= Len(s) /\ IsWordChar(s[p])
  IN left # right

RECURSIVE SubWordFrom(_, _, _, _)
\* re.sub(r'\b' + word + r'\b', rep, s)
SubWordFrom(s, word, rep, i) ==
  IF i > Len(s) THEN << >>
  ELSE IF /\ MatchesAt(s, word, i)
          /\ WordBoundary(s, i)
          /\ WordBoundary(s, i + Len(word))
    THEN rep \o SubWordFrom(s, word, rep, i + Len(word))
    ELSE <<s[i]>> \o SubWordFrom(s, word, rep, i + 1)

ReSubWord(s, word, rep) == SubWordFrom(s, word, rep, 1)

\* keep the characters of s that satisfy keep (re.sub of a negated class by '')
RECURSIVE FilterChars(_, _)
FilterChars(s, keep) ==
  IF s = << >> THEN << >>
  ELSE IF Head(s) \in keep THEN <<Head(s)>> \o FilterChars(Tail(s), keep)
  ELSE FilterChars(Tail(s), keep)

\* the set of the elements of a sequence
Range(f) == {f[i] : i \in DOMAIN f}

(***************************************************************************)
(* Scores are exact fractions <<numerator, denominator>>, denominator > 0, *)
(* kept in lowest terms.                                                   *)
(***************************************************************************)
RECURSIVE GCD(_, _)
GCD(a, b) == IF b = 0 THEN a ELSE GCD(b, a % b)

Abs(n) == IF n < 0 THEN -n ELSE n

\* n/d in lowest terms
Frac(n, d) ==
  LET g == GCD(Abs(n), d) IN IF g = 0 THEN <<n, d>> ELSE <<n \div g, d \div g>>

FracAdd(a, b) == Frac(a[1] * b[2] + b[1] * a[2], a[2] * b[2])

FracLt(a, b) == a[1] * b[2] < b[1] * a[2]

FracLe(a, b) == a[1] * b[2] <= b[1] * a[2]

FracEq(a, b) == a[1] * b[2] = b[1] * a[2]

(***************************************************************************)
(* difflib.SequenceMatcher(None, a, b).ratio(): 2*M/T, M the total size of *)
(* the matching blocks found by repeatedly taking the longest common block *)
(* and recursing to its left and right.                                    *)
(***************************************************************************)
RECURSIVE RunLen(_, _, _, _, _, _)
\* length of the common run of a[i..ahi] and b[j..bhi] starting at i, j
RunLen(a, b, i, j, ahi, bhi) ==
  IF i <= ahi /\ j <= bhi /\ a[i] = b[j]
    THEN 1 + RunLen(a, b, i + 1, j + 1, ahi, bhi)
    ELSE 0

\* m is at least as good a block as r: longer, or as long and earlier in a,
\* or as long, at the same place in a and not later in b
PreferredBlock(m, r) ==
  \/ m[3] > r[3]
  \/ m[3] = r[3] /\ m[1] < r[1]
  \/ m[3] = r[3] /\ m[1] = r[1] /\ m[2] <= r[2]

\* the block of hits that is preferred to every other one
LongestOf(hits, alo, blo) ==
  IF hits = {} THEN <<alo, blo, 0>>
  ELSE CHOOSE m \in hits : \A r \in hits : PreferredBlock(m, r)

\* find_longest_match: the longest block, the earliest in a, then in b
LongestMatch(a, b, alo, ahi, blo, bhi) ==
  LongestOf({r \in {<<i, j, RunLen(a, b, i, j, ahi, bhi)>> :
                     i \in alo..ahi, j \in blo..bhi} : r[3] > 0},
            alo, blo)

RECURSIVE MatchTotal(_, _, _, _, _, _)
\* the size of the block m and of the blocks to its left and to its right
MatchAround(a, b, alo, ahi, blo, bhi, m) ==
  IF m[3] = 0 THEN 0
  ELSE m[3]
       + MatchTotal(a, b, alo, m[1] - 1, blo, m[2] - 1)
       + MatchTotal(a, b, m[1] + m[3], ahi, m[2] + m[3], bhi)

\* get_matching_blocks: the sizes of the blocks, summed
MatchTotal(a, b, alo, ahi, blo, bhi) ==
  IF alo > ahi \/ blo > bhi THEN 0
  ELSE MatchAround(a, b, alo, ahi, blo, bhi,
                   LongestMatch(a, b, alo, ahi, blo, bhi))

\* ratio(): 1.0 for two empty strings
SequenceRatio(a, b) ==
  IF Len(a) + Len(b) = 0 THEN Frac(1, 1)
  ELSE Frac(2 * MatchTotal(a, b, 1, Len(a), 1, Len(b)), Len(a) + Len(b))

(***************************************************************************)
(* NAPAuditor.calculate_similarity_score (src/nap.py)                      *)
(***************************************************************************)
stop_words ==
  <<<<"o","f">>,
    <<"t","h","e">>,
    <<"a","n","d">>,
    <<"&">>,
    <<"-">>,
    <<"i","n","c">>,
    <<"l","l","c">>,
    <<"c","o","r","p">>,
    <<"c","o","r","p","o","r","a","t","i","o","n">>,
    <<"c","o","m","p","a","n","y">>,
    <<"c","o">>,
    <<"l","t","d">>>>

franchise_terms ==
  <<<<"h","o","m","e"," ","h","e","l","p","e","r","s">>,
    <<"h","o","m","e","c","a","r","e">>,
    <<"h","o","m","e"," ","c","a","r","e">>,
    <<"o","f">>,
    <<"a","n","d">>,
    <<"-">>,
    <<"&">>>>

Painting360 == <<"3","6","0"," ","p","a","i","n","t","i","n","g">>

HomeHelpers == <<"h","o","m","e"," ","h","e","l","p","e","r","s">>

\* name.lower().strip()
NameLower(name) == Strip(StrLower(name))

\* re.sub(r'[^a-z0-9\s]+', '', s) followed by ' '.join(s.split())
Clean360(lower) ==
  CollapseSpaces(FilterChars(lower, LowerChars \cup DigitChars \cup SpaceChars))

RECURSIVE ReplaceTerms(_, _)
\* for term in franchise_terms: s = s.replace(term, ' ')
ReplaceTerms(s, terms) ==
  IF terms = << >> THEN s
  ELSE ReplaceTerms(StrReplace(s, Head(terms), <<" ">>), Tail(terms))

CleanFranchise(lower) == CollapseSpaces(ReplaceTerms(lower, franchise_terms))

RECURSIVE RemoveStopWords(_, _)
\* for word in stop_words: s = re.sub(r'\b' + word + r'\b', ' ', s)
RemoveStopWords(s, words) ==
  IF words = << >> THEN s
  ELSE RemoveStopWords(ReSubWord(s, Head(words), <<" ">>), Tail(words))

CleanGeneric(lower) == CollapseSpaces(RemoveStopWords(lower, stop_words))

Is360(l1, l2) == Contains(l1, Painting360) \/ Contains(l2, Painting360)

IsHomeHelpers(l1, l2) == Contains(l1, HomeHelpers) /\ Contains(l2, HomeHelpers)

\* the franchise terms left in place on the Home Helpers branch
CleanName_Mutant(lower, l1, l2) ==
  IF Is360(l1, l2) THEN Clean360(lower) ELSE CleanGeneric(lower)

\* the cleaned form of a name, by the branch the pair of names takes
CleanName(lower, l1, l2) ==
  IF Is360(l1, l2) THEN Clean360(lower)
  ELSE IF IsHomeHelpers(l1, l2) THEN CleanFranchise(lower)
  ELSE CleanGeneric(lower)

\* {w for w in set(clean.split()) if len(w) > 2}
LongWords(clean) == {w \in Range(Split(clean)) : Len(w) > 2}

\* lines 364-370: word_score, the Jaccard index of the two word sets
WordScore(words1, words2) ==
  IF words1 # {} /\ words2 # {}
    THEN Frac(Cardinality(words1 \cap words2),
              Cardinality(words1 \cup words2))
    ELSE Frac(0, 1)

\* line 376: word_score * 0.6 + sequence_score * 0.4
FinalScore(word_score, sequence_score) ==
  FracAdd(Frac(word_score[1] * 6, word_score[2] * 10),
          Frac(sequence_score[1] * 4, sequence_score[2] * 10))

\* the weighted average without the containment check before it
BlendScore_Mutant(c1, c2) ==
  FinalScore(WordScore(LongWords(c1), LongWords(c2)), SequenceRatio(c1, c2))

\* containment looked for in one direction only
BlendScore_OneWay(c1, c2) ==
  IF Contains(c2, c1) THEN Frac(9, 10)
  ELSE FinalScore(WordScore(LongWords(c1), LongWords(c2)),
                  SequenceRatio(c1, c2))

\* lines 352-378: containment shortcut, then 0.6 * Jaccard + 0.4 * ratio
BlendScore(c1, c2) ==
  IF Contains(c2, c1) \/ Contains(c1, c2) THEN Frac(9, 10)
  ELSE FinalScore(WordScore(LongWords(c1), LongWords(c2)),
                  SequenceRatio(c1, c2))

\* lines 320-334: the early returns of the Home Helpers branch; << >> when
\* the branch falls through to the containment check
FranchiseShortcut(l1, l2) ==
  LET common == Range(Split(CleanFranchise(l1)))
                  \cap Range(Split(CleanFranchise(l2)))
  IN IF common = {} THEN << >>
     ELSE IF \E w \in Range(Split(l1)) : Contains(l2, w) THEN Frac(9, 10)
     ELSE IF \E w \in common : Len(w) > 2 THEN Frac(8, 10)
     ELSE << >>

calculate_similarity_score(name1, name2) ==
  IF name1 = << >> \/ name2 = << >> THEN Frac(0, 1)
  ELSE LET l1 == NameLower(name1)
           l2 == NameLower(name2)
       IN IF ~Is360(l1, l2) /\ IsHomeHelpers(l1, l2)
               /\ FranchiseShortcut(l1, l2) # << >>
            THEN FranchiseShortcut(l1, l2)
            ELSE BlendScore(CleanName(l1, l1, l2), CleanName(l2, l1, l2))

(***************************************************************************)
(* Text values of the model: queries, directory names, addresses, phones.  *)
(***************************************************************************)
QueryAcmePlumbing ==
  <<"A","c","m","e"," ","P","l","u","m","b","i","n","g"," ","I","n","c">>

QueryAcmeMidMO ==
  <<"A","c","m","e"," ","M","i","d","M","O">>

QueryHomeHelpers ==
  <<"H","o","m","e"," ","H","e","l","p","e","r","s"," ","o","f"," ","D","a","y","t","o","n">>

NameAcmePlumbing ==
  <<"A","c","m","e"," ","P","l","u","m","b","i","n","g">>

NameAcme ==
  <<"A","c","m","e">>

NameAcmeMidMissouri ==
  <<"A","c","m","e"," ","M","i","d"," ","M","i","s","s","o","u","r","i">>

NameZedRoofing ==
  <<"Z","e","d"," ","R","o","o","f","i","n","g">>

NameHomeHelpersColumbus ==
  <<"H","o","m","e"," ","H","e","l","p","e","r","s"," ","C","o","l","u","m","b","u","s">>

AddrColumbiaMO ==
  <<"1"," ","M","a","i","n"," ","S","t",","," ","C","o","l","u","m","b","i","a",","," ","M","O"," ","6","5","2","0","1">>

AddrDaytonOH ==
  <<"9"," ","E","l","m"," ","S","t",","," ","D","a","y","t","o","n",","," ","O","H"," ","4","5","4","0","2">>

AddrToledoOH ==
  <<"5"," ","O","a","k"," ","A","v","e",","," ","T","o","l","e","d","o",","," ","O","H"," ","4","3","6","0","4">>

AddrTroyNY ==
  <<"7"," ","P","i","n","e"," ","R","d",","," ","T","r","o","y",","," ","N","Y"," ","1","2","1","8","0">>

AddrShortMO ==
  <<"C","o","l","u","m","b","i","a",","," ","M","O">>

PhoneColumbia ==
  <<"(","5","7","3",")"," ","5","5","5","-","0","1","0","1">>

PhoneDayton ==
  <<"+","1"," ","9","3","7","-","5","5","5","-","0","1","0","2">>

PhoneToledo ==
  <<"4","1","9",".","5","5","5",".","0","1","0","3">>

UrlAcmeColumbia ==
  <<"h","t","t","p","s",":","/","/","a","c","m","e",".","c","o","m","/","c","o","l","u","m","b","i","a">>

UrlAcmeDayton ==
  <<"h","t","t","p","s",":","/","/","a","c","m","e",".","c","o","m","/","d","a","y","t","o","n">>

HintMidMO ==
  <<"M","i","d","M","O">>

RegionMO ==
  <<"M","O">>

RegionOH ==
  <<"O","H">>

TextNone ==
  <<"N","o","n","e">>

TextNoCloseMatch ==
  <<"N","o"," ","c","l","o","s","e"," ","m","a","t","c","h"," ","f","o","u","n","d">>

MsgTransport ==
  <<"H","t","t","p","E","r","r","o","r"," ","5","0","3">>

MsgTimeout ==
  <<"t","i","m","e","d"," ","o","u","t">>


\* Python's None, and the absence of a key in a returned dict
None == <<"<None>">>

\* the empty string ''
Empty == << >>

\* all sequences over S of length at most n
SeqsUpTo(S, n) == UNION {[1..k -> S] : k \in 0..n}

(***************************************************************************)
(* One entry of response['places'] of the Places text search.  hasName is  *)
(* whether displayName.text is present; an absent string field is ''.      *)
(***************************************************************************)
Place(hasName, name, formatted, short, national, international, website) ==
  [hasName |-> hasName, name |-> name,
   formattedAddress |-> formatted, shortFormattedAddress |-> short,
   nationalPhoneNumber |-> national,
   internationalPhoneNumber |-> international,
   websiteUri |-> website]

PlaceAcmeColumbia ==
  Place(TRUE, NameAcmePlumbing, AddrColumbiaMO, Empty, PhoneColumbia, Empty,
        UrlAcmeColumbia)

PlaceAcmeDayton ==
  Place(TRUE, NameAcme, AddrDaytonOH, Empty, Empty, PhoneDayton,
        UrlAcmeDayton)

PlaceMidMissouri ==
  Place(TRUE, NameAcmeMidMissouri, Empty, AddrShortMO, Empty, Empty, Empty)

PlaceZedToledo ==
  Place(TRUE, NameZedRoofing, AddrToledoOH, Empty, PhoneToledo, Empty, Empty)

PlaceNoName ==
  Place(FALSE, Empty, AddrColumbiaMO, Empty, PhoneColumbia, Empty, Empty)

PlaceHomeHelpers ==
  Place(TRUE, NameHomeHelpersColumbus, AddrTroyNY, Empty, Empty, Empty, Empty)

\* best_match = None: no candidate taken yet
NonePlace == Place(FALSE, None, None, None, None, None, None)

SearchPlaces ==
  {PlaceAcmeColumbia, PlaceAcmeDayton, PlaceMidMissouri, PlaceZedToledo,
   PlaceNoName, PlaceHomeHelpers}

SearchQueries == {QueryAcmePlumbing, QueryAcmeMidMO, QueryHomeHelpers}

\* the longest candidate list the model hands to search_google_place
MaxPlaces == 2

\* request.execute(): it raises, or returns a response with or without the
\* 'places' key
ResponseRaises(message) ==
  [raises |-> TRUE, message |-> message, hasPlaces |-> FALSE, places |-> << >>]

ResponseNoPlacesKey ==
  [raises |-> FALSE, message |-> Empty, hasPlaces |-> FALSE, places |-> << >>]

ResponsePlaces(places) ==
  [raises |-> FALSE, message |-> Empty, hasPlaces |-> TRUE, places |-> places]

SearchResponses ==
  {ResponseRaises(MsgTransport), ResponseRaises(MsgTimeout), ResponseNoPlacesKey}
    \cup {ResponsePlaces(ps) : ps \in SeqsUpTo(SearchPlaces, MaxPlaces)}

(***************************************************************************)
(* NAPAuditor.search_google_place (src/nap.py)                             *)
(***************************************************************************)
MATCH_THRESHOLD == Frac(7, 10)

\* the dict search_google_place returns; an absent key is None
SearchResult(status, name, address, phone, website, closest, message) ==
  [status |-> status, name |-> name, address |-> address, phone |-> phone,
   website |-> website, closest_match_name |-> closest,
   error_message |-> message]

\* place.get('displayName', {}).get('text', '')
DisplayName(place) == IF place.hasName THEN place.name ELSE Empty

\* a or b on strings
StrOr(a, b) == IF a # Empty THEN a ELSE b

\* place.get('formattedAddress', '') or place.get('shortFormattedAddress', '')
FormattedAddress(place) ==
  StrOr(place.formattedAddress, place.shortFormattedAddress)

\* the adjustment left out
RegionAdjustment_Mutant(business_name, formatted_address) == Frac(0, 1)

\* lines 115-118: the region adjustment of one candidate
RegionAdjustment(business_name, formatted_address) ==
  IF Contains(business_name, HintMidMO) /\ Contains(formatted_address, RegionMO)
    THEN Frac(3, 10)
  ELSE IF Contains(business_name, HintMidMO)
            /\ Contains(formatted_address, RegionOH)
    THEN Frac(-5, 10)
  ELSE Frac(0, 1)

\* the queries and the directory names of the model
ScoredQueries == SearchQueries

ScoredNames == {DisplayName(p) : p \in SearchPlaces}

\* calculate_similarity_score over the names of the model, each pair
\* computed once
ScoreTable ==
  [q \in ScoredQueries, n \in ScoredNames |-> calculate_similarity_score(q, n)]

\* line 112: self.calculate_similarity_score(business_name, display_name)
SimilarityOf(business_name, display_name) ==
  IF business_name \in ScoredQueries /\ display_name \in ScoredNames
    THEN ScoreTable[business_name, display_name]
    ELSE calculate_similarity_score(business_name, display_name)

\* lines 110-118: the score of one candidate as the loop compares it
AdjustedScore(business_name, place) ==
  FracAdd(SimilarityOf(business_name, DisplayName(place)),
          RegionAdjustment(business_name, FormattedAddress(place)))

\* >= for >: the last of several equal candidates wins
IsBetter_Mutant(score, best_score) == FracLe(best_score, score)

\* line 120: if score > best_score
IsBetter(score, best_score) == FracLt(best_score, score)

\* lines 120-122: best_score and best_match after one candidate
BestAfter(place, score, best) ==
  IF IsBetter(score, best.score) THEN [match |-> place, score |-> score]
  ELSE best

RECURSIVE ScanPlaces(_, _, _, _)
\* lines 106-122: the loop over response['places']; best is the pair of
\* best_match (NonePlace before any candidate was taken) and best_score
ScanPlaces(business_name, places, i, best) ==
  IF i > Len(places) THEN best
  ELSE ScanPlaces(business_name, places, i + 1,
                  BestAfter(places[i],
                            AdjustedScore(business_name, places[i]), best))

BestOf(business_name, places) ==
  ScanPlaces(business_name, places, 1,
             [match |-> NonePlace, score |-> Frac(0, 1)])

\* the threshold test lowered to 0.4
MeetsThreshold_Mutant(best) ==
  best.match # NonePlace /\ FracLe(Frac(4, 10), best.score)

\* line 125: if best_match and best_score >= 0.7
MeetsThreshold(best) ==
  best.match # NonePlace /\ FracLe(MATCH_THRESHOLD, best.score)

\* lines 126-139
MatchResult(place) ==
  SearchResult("match", DisplayName(place), FormattedAddress(place),
               StrOr(place.nationalPhoneNumber, place.internationalPhoneNumber),
               place.websiteUri, None, None)

\* the two default texts confused
ClosestName_Mutant(best_match) ==
  IF best_match = NonePlace THEN TextNoCloseMatch
  ELSE IF best_match.hasName THEN best_match.name
  ELSE TextNone

\* line 142
ClosestName(best_match) ==
  IF best_match = NonePlace THEN TextNone
  ELSE IF best_match.hasName THEN best_match.name
  ELSE TextNoCloseMatch

\* lines 143-146
NoMatchResult(best_match) ==
  SearchResult("no_match", None, None, None, None, ClosestName(best_match), None)

\* lines 149-151
NoResultsResult == SearchResult("no_results", None, None, None, None, None, None)

\* the message of the exception dropped
SearchErrorResult_Mutant(message) ==
  SearchResult("error", None, None, None, None, None, Empty)

\* lines 153-157: except Exception as e
SearchErrorResult(message) ==
  SearchResult("error", None, None, None, None, None, message)

\* lines 125-146: the result for the best candidate of the loop
ResultOfBest(best) ==
  IF MeetsThreshold(best) THEN MatchResult(best.match)
  ELSE NoMatchResult(best.match)

search_google_place(business_name, response) ==
  IF response.raises THEN SearchErrorResult(response.message)
  ELSE IF response.hasPlaces /\ Len(response.places) > 0
    THEN ResultOfBest(BestOf(business_name, response.places))
  ELSE NoResultsResult

(***************************************************************************)
(* Texts of NAPAuditor.process_business and determine_match_status.        *)
(***************************************************************************)
\* the characters in code point order (tab, newline, then 32..126 without
\* the grave accent)
AsciiSeq ==
  <<"\t","\n"," ","!","\"","#","$","%","&","'","(",")","*","+",",","-",
    ".","/","0","1","2","3","4","5","6","7","8","9",":",";","<","=",
    ">","?","@","A","B","C","D","E","F","G","H","I","J","K","L","M",
    "N","O","P","Q","R","S","T","U","V","W","X","Y","Z","[","\\","]",
    "^","_","a","b","c","d","e","f","g","h","i","j","k","l","m",
    "n","o","p","q","r","s","t","u","v","w","x","y","z","{","|","}",
    "~">>

NotAvailableNoWebsite ==
  <<"N","o","t"," ","a","v","a","i","l","a","b","l","e"," ","(","n","o"," ","G","B","P"," ","w","e","b","s","i","t","e"," ","f","o","u","n","d",")">>

WebsiteScrapingFailed ==
  <<"W","e","b","s","i","t","e"," ","s","c","r","a","p","i","n","g"," ","f","a","i","l","e","d">>

NotAvailableNoMatch ==
  <<"N","o","t"," ","a","v","a","i","l","a","b","l","e"," ","(","n","o"," ","m","a","t","c","h",")">>

NotAvailable ==
  <<"N","o","t"," ","a","v","a","i","l","a","b","l","e">>

NotAvailableNoCloseMatch ==
  <<"N","o","t"," ","a","v","a","i","l","a","b","l","e"," ","(","n","o"," ","c","l","o","s","e"," ","m","a","t","c","h",")">>

StatusNoGbpMatch ==
  <<"N","o"," ","G","B","P"," ","M","a","t","c","h">>

StatusAllGood ==
  <<"A","l","l"," ","G","o","o","d">>

ActionAllGood ==
  <<"A","l","l"," ","N","A","P"," ","i","n","f","o","r","m","a","t","i","o","n"," ","i","s"," ","c","o","n","s","i","s","t","e","n","t",".">>

ActionNoResults ==
  <<"N","o"," ","r","e","s","u","l","t","s"," ","r","e","t","u","r","n","e","d"," ","f","r","o","m"," ","P","l","a","c","e","s"," ","A","P","I"," ","f","o","r"," ","t","h","i","s"," ","s","e","a","r","c","h"," ","q","u","e","r","y",".">>

ActionClosestPrefix ==
  <<"T","h","e","r","e"," ","w","a","s"," ","n","o"," ","c","l","o","s","e"," ","m","a","t","c","h"," ","t","o"," ","a"," ","G","B","P"," ","e","n","t","r","y",","," ","t","h","e"," ","c","l","o","s","e","s","t"," ","m","a","t","c","h"," ","w","a","s"," ","'">>

ActionClosestSuffix ==
  <<"'",".">>

ActionManualReview ==
  <<"M","a","n","u","a","l"," ","r","e","v","i","e","w"," ","r","e","q","u","i","r","e","d",":"," ","N","o"," ","c","l","o","s","e"," ","G","o","o","g","l","e"," ","B","u","s","i","n","e","s","s"," ","P","r","o","f","i","l","e"," ","m","a","t","c","h"," ","f","o","u","n","d",".">>

IssueWebsiteAddress ==
  <<"U","p","d","a","t","e"," ","W","e","b","s","i","t","e"," ","A","d","d","r","e","s","s">>

IssueWebsitePhone ==
  <<"U","p","d","a","t","e"," ","W","e","b","s","i","t","e"," ","P","h","o","n","e">>

IssueSchemaFormatting ==
  <<"F","i","x"," ","S","c","h","e","m","a"," ","F","o","r","m","a","t","t","i","n","g">>

IssueSchemaAddress ==
  <<"U","p","d","a","t","e"," ","S","c","h","e","m","a"," ","A","d","d","r","e","s","s">>

IssueSchemaPhone ==
  <<"U","p","d","a","t","e"," ","S","c","h","e","m","a"," ","P","h","o","n","e">>

IssueYextAddress ==
  <<"U","p","d","a","t","e"," ","Y","e","x","t"," ","A","d","d","r","e","s","s">>

IssueYextPhone ==
  <<"U","p","d","a","t","e"," ","Y","e","x","t"," ","P","h","o","n","e">>

WebsiteAddressMissing ==
  <<"W","e","b","s","i","t","e"," ","A","d","d","r","e","s","s"," ","M","i","s","s","i","n","g"," ","-"," ","G","B","P",":"," ","'">>

WebsiteAddressMismatch ==
  <<"A","d","d","r","e","s","s"," ","M","i","s","m","a","t","c","h"," ","-"," ","G","B","P",":"," ","'">>

VsWebsite ==
  <<"'"," ","v","s"," ","W","e","b","s","i","t","e",":"," ","'">>

WebsitePhoneMissing ==
  <<"W","e","b","s","i","t","e"," ","P","h","o","n","e"," ","M","i","s","s","i","n","g"," ","-"," ","G","B","P",":"," ","'">>

WebsitePhoneMismatch ==
  <<"P","h","o","n","e"," ","M","i","s","m","a","t","c","h"," ","-"," ","G","B","P",":"," ","'">>

FixSchemaPrefix ==
  <<"F","i","x"," ","s","c","h","e","m","a",".","o","r","g"," ","f","o","r","m","a","t","t","i","n","g"," ","e","r","r","o","r","s",":"," ">>

SchemaAddressMissing ==
  <<"S","c","h","e","m","a"," ","A","d","d","r","e","s","s"," ","M","i","s","s","i","n","g"," ","-"," ","G","B","P",":"," ","'">>

SchemaAddressMismatch ==
  <<"S","c","h","e","m","a"," ","A","d","d","r","e","s","s"," ","M","i","s","m","a","t","c","h"," ","-"," ","G","B","P",":"," ","'">>

VsSchema ==
  <<"'"," ","v","s"," ","S","c","h","e","m","a",":"," ","'">>

SchemaPhoneMissing ==
  <<"S","c","h","e","m","a"," ","P","h","o","n","e"," ","M","i","s","s","i","n","g"," ","-"," ","G","B","P",":"," ","'">>

SchemaPhoneMismatch ==
  <<"S","c","h","e","m","a"," ","P","h","o","n","e"," ","M","i","s","m","a","t","c","h"," ","-"," ","G","B","P",":"," ","'">>

YextAddressMissing ==
  <<"Y","e","x","t"," ","A","d","d","r","e","s","s"," ","M","i","s","s","i","n","g"," ","-"," ","G","B","P",":"," ","'">>

YextAddressMismatch ==
  <<"Y","e","x","t"," ","A","d","d","r","e","s","s"," ","M","i","s","m","a","t","c","h"," ","-"," ","G","B","P",":"," ","'">>

VsYext ==
  <<"'"," ","v","s"," ","Y","e","x","t",":"," ","'">>

YextPhoneMissing ==
  <<"Y","e","x","t"," ","P","h","o","n","e"," ","M","i","s","s","i","n","g"," ","-"," ","G","B","P",":"," ","'">>

YextPhoneMismatch ==
  <<"Y","e","x","t"," ","P","h","o","n","e"," ","M","i","s","m","a","t","c","h"," ","-"," ","G","B","P",":"," ","'">>

Quote ==
  <<"'">>

IssueSeparator ==
  <<" ","/"," ">>

ActionSeparator ==
  <<" ","|"," ">>

PlusOne ==
  <<"+","1">>


\* ord(c)
CharOrd(c) == CHOOSE i \in 1..Len(AsciiSeq) : AsciiSeq[i] = c

RECURSIVE StrLess(_, _)
\* a < b on str: by code point, a proper prefix first
StrLess(a, b) ==
  IF b = << >> THEN FALSE
  ELSE IF a = << >> THEN TRUE
  ELSE IF Head(a) = Head(b) THEN StrLess(Tail(a), Tail(b))
  ELSE CharOrd(Head(a)) < CharOrd(Head(b))

RECURSIVE SortedSet_Mutant(_)
\* the sort in descending order
SortedSet_Mutant(S) ==
  IF S = {} THEN << >>
  ELSE LET greatest == CHOOSE x \in S : \A y \in S \ {x} : StrLess(y, x)
       IN <<greatest>> \o SortedSet_Mutant(S \ {greatest})

RECURSIVE SortedSet(_)
\* sorted(list(set(xs))) for a set of strings
SortedSet(S) ==
  IF S = {} THEN << >>
  ELSE LET least == CHOOSE x \in S : \A y \in S \ {x} : StrLess(x, y)
       IN <<least>> \o SortedSet(S \ {least})

\* bool(v) for a string or None
Truthy(v) == v # None /\ v # Empty

\* f"{v}": None is printed as the text None
FStr(v) == IF v = None THEN TextNone ELSE v

RECURSIVE ReSubRunsFrom(_, _, _, _, _)
\* re.sub(class{2,}, rep, s): every run of two or more characters of the
\* class replaced by rep; run is the length of the run ending before i
ReSubRunsFrom(s, class, rep, i, run) ==
  LET flush == IF run >= 2 THEN rep
               ELSE IF run = 1 THEN <<s[i - 1]>>
               ELSE << >>
  IN IF i > Len(s) THEN flush
     ELSE IF s[i] \in class THEN ReSubRunsFrom(s, class, rep, i + 1, run + 1)
     ELSE flush \o <<s[i]>> \o ReSubRunsFrom(s, class, rep, i + 1, 0)

ReSubRuns(s, class, rep) == ReSubRunsFrom(s, class, rep, 1, 0)

(***************************************************************************)
(* NAPAuditor.normalize_phone_number and normalize_address (src/nap.py)    *)
(***************************************************************************)
\* re.sub(r'\D', '', str(phone))
DigitsOnly(phone) == FilterChars(phone, DigitChars)

\* the length of the input tested, not the number of its digits
normalize_phone_number_Mutant(phone) ==
  IF ~Truthy(phone) THEN None
  ELSE IF Len(phone) = 10 THEN PlusOne \o DigitsOnly(phone)
  ELSE phone

normalize_phone_number(phone) ==
  IF ~Truthy(phone) THEN None
  ELSE IF Len(DigitsOnly(phone)) = 10 THEN PlusOne \o DigitsOnly(phone)
  ELSE phone

\* the commas at the ends left in place
normalize_address_Mutant(address) ==
  IF ~Truthy(address) THEN None
  ELSE ReSubRuns(Strip(ReSubRuns(address, SpaceChars, <<" ">>)), {","}, <<",">>)

normalize_address(address) ==
  IF ~Truthy(address) THEN None
  ELSE LET spaced   == Strip(ReSubRuns(address, SpaceChars, <<" ">>))
           stripped == Strip(StripBy(spaced, {","}))
       IN ReSubRuns(stripped, {","}, <<",">>)

\* normalize_phone: the alias of lines 859-865
normalize_phone(phone) == normalize_phone_number(phone)

(***************************************************************************)
(* NAPAuditor.determine_match_status (src/nap.py)                          *)
(***************************************************************************)
\* a dict argument that is None
NoneDict == [none |-> TRUE]

\* gbp_data as process_business builds it
GbpData(status, name, address, website, phone, closest) ==
  [status |-> status, name |-> name, address |-> address,
   website |-> website, phone |-> phone, closest_match_name |-> closest]

\* website_data['schema']
SchemaData(name, address, phone, formatting_error) ==
  [name |-> name, address |-> address, phone |-> phone,
   formatting_error |-> formatting_error]

WebsiteData(name, address, phone, schema) ==
  [name |-> name, address |-> address, phone |-> phone, schema |-> schema]

YextData(name, address, phone) ==
  [name |-> name, address |-> address, phone |-> phone]

\* lines 680-681: missing_address and missing_phone hold the same strings
missing_address ==
  {NotAvailableNoWebsite, WebsiteScrapingFailed, NotAvailableNoMatch,
   NotAvailable, Empty}

missing_phone ==
  {NotAvailableNoWebsite, WebsiteScrapingFailed, NotAvailableNoMatch,
   NotAvailable, Empty}

\* one discrepancy: the issue category and the action text
Finding(issue, action) == [issue |-> issue, action |-> action]

\* == for != in the elif: equal values reported, different ones passed
CompareField_Mutant(value, gbp, missing, issue, missingText, mismatchText, vsText) ==
  IF value \in missing
    THEN <<Finding(issue, missingText \o FStr(gbp) \o Quote)>>
  ELSE IF Truthy(gbp) /\ Truthy(value) /\ gbp = value
    THEN <<Finding(issue,
                   mismatchText \o FStr(gbp) \o vsText \o FStr(value) \o Quote)>>
  ELSE << >>

\* the if / elif of one source and field (lines 685-690 and alike): value and
\* gbp are the normalized values
CompareField(value, gbp, missing, issue, missingText, mismatchText, vsText) ==
  IF value \in missing
    THEN <<Finding(issue, missingText \o FStr(gbp) \o Quote)>>
  ELSE IF Truthy(gbp) /\ Truthy(value) /\ gbp # value
    THEN <<Finding(issue,
                   mismatchText \o FStr(gbp) \o vsText \o FStr(value) \o Quote)>>
  ELSE << >>

\* lines 701-703
FormattingFinding(formatting_error) ==
  IF formatting_error \notin
         {NotAvailableNoWebsite, WebsiteScrapingFailed, NotAvailable}
       /\ formatting_error # Empty
    THEN <<Finding(IssueSchemaFormatting,
                   FixSchemaPrefix \o FStr(formatting_error))>>
    ELSE << >>

\* 'error' left out of the list
NoGbpStatuses_Mutant == {"no_match", "no_results"}

\* lines 653-663
NoGbpStatuses == {"no_match", "no_results", "error"}

NoGbpAction(gbp_data) ==
  IF gbp_data.status = "no_results" THEN ActionNoResults
  ELSE IF gbp_data.status = "no_match" /\ Truthy(gbp_data.closest_match_name)
    THEN ActionClosestPrefix \o gbp_data.closest_match_name
           \o ActionClosestSuffix
  ELSE ActionManualReview

\* lines 665-733: issues and actions, in the order the code appends them
Findings(gbp_data, website_data, yext_data) ==
  LET gbp_address == normalize_address(gbp_data.address)
      gbp_phone   == normalize_phone_number(gbp_data.phone)
      website ==
        IF website_data = NoneDict THEN << >>
        ELSE CompareField(normalize_address(website_data.address), gbp_address,
                          missing_address, IssueWebsiteAddress,
                          WebsiteAddressMissing, WebsiteAddressMismatch,
                          VsWebsite)
             \o CompareField(normalize_phone_number(website_data.phone),
                             gbp_phone, missing_phone, IssueWebsitePhone,
                             WebsitePhoneMissing, WebsitePhoneMismatch,
                             VsWebsite)
      schema ==
        IF website_data = NoneDict THEN << >>
        ELSE IF website_data.schema = NoneDict THEN << >>
        ELSE FormattingFinding(website_data.schema.formatting_error)
             \o CompareField(normalize_address(website_data.schema.address),
                             gbp_address, missing_address, IssueSchemaAddress,
                             SchemaAddressMissing, SchemaAddressMismatch,
                             VsSchema)
             \o CompareField(normalize_phone_number(website_data.schema.phone),
                             gbp_phone, missing_phone, IssueSchemaPhone,
                             SchemaPhoneMissing, SchemaPhoneMismatch, VsSchema)
      yext ==
        IF yext_data = NoneDict THEN << >>
        ELSE CompareField(normalize_address(yext_data.address), gbp_address,
                          missing_address, IssueYextAddress,
                          YextAddressMissing, YextAddressMismatch, VsYext)
             \o CompareField(normalize_phone_number(yext_data.phone),
                             gbp_phone, missing_phone, IssueYextPhone,
                             YextPhoneMissing, YextPhoneMismatch, VsYext)
  IN website \o schema \o yext

\* the join without sorted(): categories and texts in the order recorded
StatusOfFindings_Mutant(findings) ==
  IF findings = << >> THEN <<StatusAllGood, ActionAllGood>>
  ELSE <<Join([i \in DOMAIN findings |-> findings[i].issue], IssueSeparator),
         Join([i \in DOMAIN findings |-> findings[i].action],
              ActionSeparator)>>

\* lines 735-741
StatusOfFindings(findings) ==
  IF findings = << >> THEN <<StatusAllGood, ActionAllGood>>
  ELSE <<Join(SortedSet({f.issue : f \in Range(findings)}), IssueSeparator),
         Join(SortedSet({f.action : f \in Range(findings)}), ActionSeparator)>>

\* the no-GBP test of line 653
IsNoGbp(gbp_data) == gbp_data.status \in NoGbpStatuses

\* the name compared like the address and the phone
determine_match_status_Mutant(gbp_data, website_data, yext_data) ==
  IF IsNoGbp(gbp_data) THEN <<StatusNoGbpMatch, NoGbpAction(gbp_data)>>
  ELSE StatusOfFindings(
         Findings(gbp_data, website_data, yext_data)
         \o (IF website_data # NoneDict /\ website_data.name # gbp_data.name
               THEN <<Finding(<<"U","p","d","a","t","e"," ","W","e","b","s","i","t","e"," ","N","a","m","e">>,
                              <<"N","a","m","e"," ","M","i","s","m","a","t","c","h">>)>>
               ELSE << >>))

\* returns <<match_status, action_needed>>
determine_match_status(gbp_data, website_data, yext_data) ==
  IF IsNoGbp(gbp_data) THEN <<StatusNoGbpMatch, NoGbpAction(gbp_data)>>
  ELSE StatusOfFindings(Findings(gbp_data, website_data, yext_data))

(***************************************************************************)
(* SpecSearch: one call of search_google_place, on any query and response. *)
(***************************************************************************)
SearchIdle ==
  /\ searchDone = FALSE
  /\ searchName = Empty
  /\ searchResponse = ResponseNoPlacesKey
  /\ searchResult = NoResultsResult

StatusIdle ==
  /\ statusDone = FALSE
  /\ statusGbp = NoneDict
  /\ statusWebsite = NoneDict
  /\ statusYext = NoneDict
  /\ statusResult = <<Empty, Empty>>

\* no batch task
BatchIdle ==
  /\ business_names = << >>
  /\ index = 1
  /\ pc = "idle"
  /\ cur_gbp_data = NoneDict
  /\ cur_gbp_website_url = None
  /\ cur_yext_data = NoneDict
  /\ cur_raw_website_data = NoneDict
  /\ cur_website_data = NoneDict
  /\ auditor_results = << >>
  /\ results = << >>
  /\ steps = << >>

\* no audit request
WsgiIdle ==
  /\ wsgi_names = << >>
  /\ wsgi_index = 1
  /\ wsgi_pc = "idle"
  /\ wsgi_gbp = NoneDict
  /\ wsgi_website = NoneDict
  /\ wsgi_yext = NoneDict
  /\ wsgi_results = << >>
  /\ wsgi_error = None

\* no single call
CallIdle ==
  /\ callName = "none"
  /\ callArgs = << >>
  /\ callResult = None
  /\ callRequests = << >>

\* the bound on the tasks that run at the same time
NumTasks == 2

\* the process_audit_batch tasks
Tasks == 1..NumTasks

\* no concurrent task
TaskIdle ==
  /\ task_business_names = [t \in Tasks |-> << >>]
  /\ task_pc = [t \in Tasks |-> "idle"]
  /\ task_index = [t \in Tasks |-> 1]
  /\ task_auditor = [t \in Tasks |-> 0]
  /\ task_results = [t \in Tasks |-> << >>]
  /\ task_return = [t \in Tasks |-> None]
  /\ instance_results = [a \in Tasks |-> << >>]

\* no call of make_api_request
ApiIdle ==
  /\ api_url = "none"
  /\ api_pc = "idle"
  /\ api_attempt = 0
  /\ api_log = << >>
  /\ api_result = NoneDict
  /\ api_raised = "none"

SearchInit == SearchIdle /\ StatusIdle /\ BatchIdle /\ WsgiIdle /\ CallIdle
  /\ TaskIdle
  /\ ApiIdle

CallSearchGooglePlace ==
  /\ UNCHANGED <<statusVars, batchVars, wsgiVars, callVars>>
  /\ UNCHANGED <<taskVars, apiVars>>
  /\ \E business_name \in SearchQueries, response \in SearchResponses :
       /\ ~searchDone
       /\ searchDone' = TRUE
       /\ searchName' = business_name
       /\ searchResponse' = response
       /\ searchResult' = search_google_place(business_name, response)

SearchNext == CallSearchGooglePlace

SpecSearch == SearchInit /\ [][SearchNext]_vars

\* the candidate list of the call, and the scores the claims speak of
SearchCandidates == searchResponse.places

HasCandidates ==
  searchDone /\ ~searchResponse.raises /\ searchResponse.hasPlaces
    /\ Len(SearchCandidates) > 0

CandidateScore(i) == AdjustedScore(searchName, SearchCandidates[i])

\* the first candidate, in input order, that has the maximum score
FirstBest ==
  CHOOSE i \in DOMAIN SearchCandidates :
    /\ \A j \in DOMAIN SearchCandidates : FracLe(CandidateScore(j), CandidateScore(i))
    /\ \A j \in 1..(i - 1) : FracLt(CandidateScore(j), CandidateScore(i))

(***************************************************************************)
(* C1: search_google_place returns status 'match' only when the chosen     *)
(* candidate's score, after the region adjustment, is at least 0.70; when  *)
(* no candidate's adjusted score reaches 0.70 the status is not 'match'.   *)
(***************************************************************************)
C1_MatchOnlyAboveThreshold ==
  searchDone =>
    /\ searchResult.status = "match" =>
         /\ HasCandidates
         /\ \E i \in DOMAIN SearchCandidates :
              /\ searchResult = MatchResult(SearchCandidates[i])
              /\ FracLe(Frac(7, 10), CandidateScore(i))
    /\ (HasCandidates
          /\ \A i \in DOMAIN SearchCandidates :
               FracLt(CandidateScore(i), Frac(7, 10)))
         => searchResult.status # "match"

C1_Witness ==
  /\ HasCandidates
  /\ Len(SearchCandidates) = 2
  /\ searchResult.status = "match"
  /\ \E i \in DOMAIN SearchCandidates :
       FracLt(CandidateScore(i), Frac(7, 10))

(***************************************************************************)
(* C2: when the status is 'match', the returned record is the candidate    *)
(* with the maximum score over the whole list, and of several candidates   *)
(* sharing the maximum the first in input order.                           *)
(***************************************************************************)
C2_FirstMaximumReturned ==
  (searchDone /\ searchResult.status = "match") =>
    searchResult = MatchResult(SearchCandidates[FirstBest])

C2_Witness ==
  /\ HasCandidates
  /\ searchResult.status = "match"
  /\ Len(SearchCandidates) = 2
  /\ FracEq(CandidateScore(1), CandidateScore(2))
  /\ MatchResult(SearchCandidates[1]) # MatchResult(SearchCandidates[2])
  /\ searchResult = MatchResult(SearchCandidates[1])

(***************************************************************************)
(* C3 as stated: for every non-empty candidate list whose best score is    *)
(* below 0.70, the status is 'no_match' and closest_match_name is the      *)
(* display name of the top (highest-scoring) candidate.                    *)
(***************************************************************************)
C3_Original ==
  (HasCandidates /\ FracLt(CandidateScore(FirstBest), Frac(7, 10))) =>
    /\ searchResult.status = "no_match"
    /\ searchResult.closest_match_name = DisplayName(SearchCandidates[FirstBest])

(***************************************************************************)
(* C3 amended: for every non-empty candidate list whose best score is      *)
(* below 0.70, the status is 'no_match'; closest_match_name is the display *)
(* name of the top candidate (first on ties) when that candidate's score   *)
(* is above 0 and it has a display name, 'No close match found' when its   *)
(* score is above 0 and it has no display-name text, and 'None' when no    *)
(* candidate scores above 0.                                               *)
(***************************************************************************)
C3_ClosestNameOfPositiveBest ==
  (HasCandidates /\ FracLt(CandidateScore(FirstBest), Frac(7, 10))) =>
    /\ searchResult.status = "no_match"
    /\ searchResult.closest_match_name =
         IF ~FracLt(Frac(0, 1), CandidateScore(FirstBest)) THEN TextNone
         ELSE IF SearchCandidates[FirstBest].hasName
           THEN SearchCandidates[FirstBest].name
         ELSE TextNoCloseMatch

C3_Witness ==
  /\ HasCandidates
  /\ Len(SearchCandidates) = 2
  /\ FirstBest = 2
  /\ FracLt(Frac(0, 1), CandidateScore(FirstBest))
  /\ FracLt(CandidateScore(FirstBest), Frac(7, 10))
  /\ searchResult.status = "no_match"
  /\ searchResult.closest_match_name = SearchCandidates[2].name

(***************************************************************************)
(* C4: search_google_place is total and never raises: every call returns   *)
(* one result whose status is 'match', 'no_match', 'no_results' or         *)
(* 'error'; an empty candidate list gives 'no_results', and an exception   *)
(* during the upstream request gives 'error' carrying the message.         *)
(***************************************************************************)
C4_TotalTaggedResult ==
  searchDone =>
    /\ searchResult.status \in {"match", "no_match", "no_results", "error"}
    /\ searchResponse.raises =>
         /\ searchResult.status = "error"
         /\ searchResult.error_message = searchResponse.message
    /\ (~searchResponse.raises
          /\ (~searchResponse.hasPlaces \/ Len(searchResponse.places) = 0))
         => searchResult.status = "no_results"
    /\ searchResult.status = "error" => searchResponse.raises

C4_Witness ==
  /\ searchDone
  /\ searchResponse.raises
  /\ searchResult.status = "error"
  /\ searchResult.error_message = MsgTimeout

(***************************************************************************)
(* C5: the region adjustment (+0.3 when the query carries the 'MidMO' hint *)
(* and the candidate address contains 'MO', otherwise -0.5 when the query  *)
(* carries the hint and the address contains 'OH') is added to the name    *)
(* score before the best-candidate comparison and before the 0.70 test: the*)
(* status is 'match' exactly when the largest adjusted score is at least   *)
(* 0.70, and the record returned is the first candidate with that score.   *)
(***************************************************************************)
C5_NameScore(i) == SimilarityOf(searchName, DisplayName(SearchCandidates[i]))

C5_Adjusted(i) ==
  LET addr == FormattedAddress(SearchCandidates[i])
      hint == Contains(searchName, <<"M","i","d","M","O">>)
  IN IF hint /\ Contains(addr, <<"M","O">>)
       THEN FracAdd(C5_NameScore(i), Frac(3, 10))
     ELSE IF hint /\ Contains(addr, <<"O","H">>)
       THEN FracAdd(C5_NameScore(i), Frac(-5, 10))
     ELSE C5_NameScore(i)

C5_FirstBest ==
  CHOOSE i \in DOMAIN SearchCandidates :
    /\ \A j \in DOMAIN SearchCandidates : FracLe(C5_Adjusted(j), C5_Adjusted(i))
    /\ \A j \in 1..(i - 1) : FracLt(C5_Adjusted(j), C5_Adjusted(i))

C5_AdjustmentBeforeSelection ==
  HasCandidates =>
    /\ searchResult.status = "match"
         <=> FracLe(Frac(7, 10), C5_Adjusted(C5_FirstBest))
    /\ searchResult.status = "match"
         => searchResult = MatchResult(SearchCandidates[C5_FirstBest])

\* a candidate with name score >= 0.70 is rejected and one with name score
\* < 0.70 is returned as the match
C5_Witness ==
  /\ HasCandidates
  /\ Len(SearchCandidates) = 2
  /\ FracLe(Frac(7, 10), C5_NameScore(1))
  /\ FracLt(C5_Adjusted(1), Frac(7, 10))
  /\ FracLt(C5_NameScore(2), Frac(7, 10))
  /\ searchResult.status = "match"
  /\ searchResult = MatchResult(SearchCandidates[2])
  /\ searchResult # MatchResult(SearchCandidates[1])

(***************************************************************************)
(* SpecStatus: one call of determine_match_status, on any reference,       *)
(* website and listings record of the model.                               *)
(***************************************************************************)
AddrColumbiaMessy ==
  <<" ","1"," ","M","a","i","n"," ","S","t",","," "," ","C","o","l","u","m","b","i","a",","," ","M","O"," ","6","5","2","0","1",",">>

AddrColumbiaLower ==
  <<"1"," ","m","a","i","n"," ","s","t",","," ","c","o","l","u","m","b","i","a",","," ","m","o"," ","6","5","2","0","1">>

AddrElm ==
  <<"2"," ","E","l","m"," ","S","t",","," ","C","o","l","u","m","b","i","a",","," ","M","O"," ","6","5","2","0","1">>

AddrColumbiaPlain ==
  <<"1"," ","m","a","i","n"," ","s","t"," ","c","o","l","u","m","b","i","a"," ","m","o"," ","6","5","2","0","1">>

AddrColumbiaCommas ==
  <<",","1"," ","M","a","i","n"," ","S","t",",",","," ","C","o","l","u","m","b","i","a",","," ","M","O"," ","6","5","2","0","1"," ">>

PhoneColumbiaDotted ==
  <<"5","7","3",".","5","5","5",".","0","1","0","1">>

PhoneColumbiaPlain ==
  <<"5","7","3","5","5","5","0","1","0","1">>

PhoneColumbiaE164 ==
  <<"+","1","5","7","3","5","5","5","0","1","0","1">>

PhoneOther ==
  <<"5","7","3","-","5","5","5","-","0","1","9","9">>

PhoneShort ==
  <<"5","5","5","-","0","1","0","1">>

TitleAcme ==
  <<"A","c","m","e"," ","P","l","u","m","b","i","n","g"," ","|"," ","H","o","m","e">>

ErrTelePhone ==
  <<"'","t","e","l","e","P","h","o","n","e","'"," ","s","h","o","u","l","d"," ","b","e"," ","'","t","e","l","e","p","h","o","n","e","'">>

ErrMissingContext ==
  <<"M","i","s","s","i","n","g"," ","@","c","o","n","t","e","x","t">>


\* gbp_data of a matched reference search (process_business, lines 777-783)
GbpMatched(address, phone) ==
  GbpData("match", NameAcmePlumbing, address, UrlAcmeColumbia, phone, None)

\* gbp_data when the search did not match (lines 748-754 and 786-787)
GbpUnmatched(status, closest) ==
  GbpData(status, NotAvailableNoCloseMatch, NotAvailableNoCloseMatch,
          NotAvailableNoCloseMatch, NotAvailableNoCloseMatch, closest)

\* website_data before any scrape (lines 760-770)
WebsiteInitial ==
  WebsiteData(NotAvailableNoWebsite, NotAvailableNoWebsite,
              NotAvailableNoWebsite,
              SchemaData(NotAvailable, NotAvailable, NotAvailable, Empty))

\* website_data after a failed scrape (lines 822-832)
WebsiteFailed ==
  WebsiteData(WebsiteScrapingFailed, WebsiteScrapingFailed,
              WebsiteScrapingFailed,
              SchemaData(WebsiteScrapingFailed, WebsiteScrapingFailed,
                         WebsiteScrapingFailed, WebsiteScrapingFailed))

\* yext_data before any listings match (lines 755-759)
YextInitial ==
  YextData(NotAvailableNoMatch, NotAvailableNoMatch, NotAvailableNoMatch)

StatusGbpInputs ==
  {GbpMatched(AddrColumbiaMO, PhoneColumbia),
   GbpMatched(Empty, Empty),
   GbpUnmatched("no_match", NameAcme),
   GbpUnmatched("no_match", None),
   GbpUnmatched("no_results", None),
   GbpUnmatched("error", None)}

StatusWebsiteInputs ==
  {NoneDict, WebsiteInitial, WebsiteFailed,
   WebsiteData(TitleAcme, AddrColumbiaMO, PhoneColumbiaE164,
               SchemaData(NameAcme, AddrColumbiaMessy, PhoneColumbiaPlain,
                          Empty)),
   WebsiteData(TitleAcme, AddrElm, PhoneOther,
               SchemaData(NameAcme, Empty, Empty, ErrTelePhone)),
   WebsiteData(TitleAcme, Empty, Empty,
               SchemaData(NotAvailable, NotAvailable, NotAvailable,
                          ErrMissingContext)),
   WebsiteData(TitleAcme, AddrColumbiaLower, PhoneShort,
               SchemaData(NotAvailable, NotAvailable, NotAvailable, Empty)),
   WebsiteData(TitleAcme, AddrColumbiaPlain, PhoneColumbiaE164,
               SchemaData(NameAcme, AddrColumbiaLower, PhoneColumbiaDotted,
                          Empty)),
   WebsiteData(TitleAcme, AddrColumbiaMessy, PhoneColumbiaDotted,
               SchemaData(NameAcme, AddrColumbiaCommas, PhoneColumbiaE164,
                          Empty))}

StatusYextInputs ==
  {NoneDict, YextInitial,
   YextData(NameAcme, AddrColumbiaMO, PhoneColumbiaPlain),
   YextData(NameAcme, AddrColumbiaPlain, PhoneColumbiaE164),
   YextData(NameAcme, AddrElm, PhoneOther),
   YextData(NameAcme, Empty, Empty)}

StatusInit == SearchIdle /\ StatusIdle /\ BatchIdle /\ WsgiIdle /\ CallIdle
  /\ TaskIdle
  /\ ApiIdle

CallDetermineMatchStatus ==
  /\ UNCHANGED <<searchVars, batchVars, wsgiVars, callVars>>
  /\ UNCHANGED <<taskVars, apiVars>>
  /\ \E gbp_data \in StatusGbpInputs, website_data \in StatusWebsiteInputs,
        yext_data \in StatusYextInputs :
       /\ ~statusDone
       /\ statusDone' = TRUE
       /\ statusGbp' = gbp_data
       /\ statusWebsite' = website_data
       /\ statusYext' = yext_data
       /\ statusResult' =
            determine_match_status(gbp_data, website_data, yext_data)

StatusNext == CallDetermineMatchStatus

SpecStatus == StatusInit /\ [][StatusNext]_vars

\* the discrepancies a field comparison of the call's arguments yields
StatusFindings == Findings(statusGbp, statusWebsite, statusYext)

(***************************************************************************)
(* C10: when the reference result's status is 'no_match', 'no_results' or  *)
(* 'error', determine_match_status returns the status 'No GBP Match' for   *)
(* every website, structured-data and listings record, and no address or   *)
(* phone comparison contributes to the result.                             *)
(***************************************************************************)
C10_NoGbpShortCircuit ==
  (statusDone /\ statusGbp.status \in {"no_match", "no_results", "error"}) =>
    /\ statusResult[1] = <<"N","o"," ","G","B","P"," ","M","a","t","c","h">>
    /\ \A f \in Range(StatusFindings) :
         /\ ~Contains(statusResult[1], f.issue)
         /\ ~Contains(statusResult[2], f.action)
    /\ \A w \in StatusWebsiteInputs, y \in StatusYextInputs :
         determine_match_status(statusGbp, w, y) = statusResult

C10_Witness ==
  /\ statusDone
  /\ statusGbp.status = "error"
  /\ Len(StatusFindings) >= 4
  /\ statusResult[1] = StatusNoGbpMatch

\* the fields of the other sources that the call compares with the
\* reference: the value as passed, the category and the texts of its
\* 'Missing' and 'Mismatch' actions
StatusSourceField(kind, value, issue, missingText, mismatchText) ==
  [kind |-> kind, value |-> value, issue |-> issue,
   missingText |-> missingText, mismatchText |-> mismatchText]

StatusComparedFields ==
  (IF statusWebsite = NoneDict THEN {}
   ELSE {StatusSourceField("address", statusWebsite.address,
                           IssueWebsiteAddress, WebsiteAddressMissing,
                           WebsiteAddressMismatch),
         StatusSourceField("phone", statusWebsite.phone, IssueWebsitePhone,
                           WebsitePhoneMissing, WebsitePhoneMismatch)})
  \cup
  (IF statusWebsite = NoneDict THEN {}
   ELSE IF statusWebsite.schema = NoneDict THEN {}
   ELSE {StatusSourceField("address", statusWebsite.schema.address,
                           IssueSchemaAddress, SchemaAddressMissing,
                           SchemaAddressMismatch),
         StatusSourceField("phone", statusWebsite.schema.phone,
                           IssueSchemaPhone, SchemaPhoneMissing,
                           SchemaPhoneMismatch)})
  \cup
  (IF statusYext = NoneDict THEN {}
   ELSE {StatusSourceField("address", statusYext.address, IssueYextAddress,
                           YextAddressMissing, YextAddressMismatch),
         StatusSourceField("phone", statusYext.phone, IssueYextPhone,
                           YextPhoneMissing, YextPhoneMismatch)})

\* the normalized value of a compared field and of the reference's field
NormalizedOf(kind, value) ==
  IF kind = "address" THEN normalize_address(value)
  ELSE normalize_phone_number(value)

ReferenceOf(kind) ==
  IF kind = "address" THEN NormalizedOf(kind, statusGbp.address)
  ELSE NormalizedOf(kind, statusGbp.phone)

\* the 'Missing' discrepancies recorded for one compared field
MissingRecorded(field) ==
  {i \in DOMAIN StatusFindings :
     /\ StatusFindings[i].issue = field.issue
     /\ MatchesAt(StatusFindings[i].action, field.missingText, 1)}

\* the call had a matched reference
StatusMatched == statusDone /\ statusGbp.status = "match"

(***************************************************************************)
(* C11: with a matched reference, for every other source and for each of   *)
(* Address and Phone, a value that is one of the three 'Not available'     *)
(* sentinels, 'Website scraping failed' or the empty string yields exactly *)
(* one missing discrepancy for that source and field, and its action text  *)
(* quotes the reference value.  The code normalizes the value before the   *)
(* membership test and the empty string normalizes to None, so the empty   *)
(* string is never recorded: TLC refutes the statement.                    *)
(***************************************************************************)
C11_MissingSet ==
  {<<"N","o","t"," ","a","v","a","i","l","a","b","l","e"," ","(","n","o"," ","G","B","P"," ","w","e","b","s","i","t","e"," ","f","o","u","n","d",")">>,
   <<"N","o","t"," ","a","v","a","i","l","a","b","l","e"," ","(","n","o"," ","m","a","t","c","h",")">>,
   <<"N","o","t"," ","a","v","a","i","l","a","b","l","e">>,
   <<"W","e","b","s","i","t","e"," ","s","c","r","a","p","i","n","g"," ","f","a","i","l","e","d">>,
   << >>}

C11_MissingYieldsOneDiscrepancy ==
  StatusMatched =>
    \A field \in StatusComparedFields :
      field.value \in C11_MissingSet =>
        /\ Cardinality(MissingRecorded(field)) = 1
        /\ \A i \in MissingRecorded(field) :
             /\ Contains(StatusFindings[i].action,
                         FStr(ReferenceOf(field.kind)))
             /\ Contains(statusResult[2], StatusFindings[i].action)
        /\ Contains(statusResult[1], field.issue)

\* the 'Mismatch' discrepancies recorded for one compared field
MismatchRecorded(field) ==
  {i \in DOMAIN StatusFindings :
     /\ StatusFindings[i].issue = field.issue
     /\ MatchesAt(StatusFindings[i].action, field.mismatchText, 1)}

(***************************************************************************)
(* C12 as stated: with a matched reference, a source value that is not in  *)
(* the missing set and whose normalized value differs from the normalized  *)
(* reference value yields a mismatch discrepancy, also when the reference  *)
(* value is empty or absent.                                               *)
(***************************************************************************)
C12_Original ==
  StatusMatched =>
    \A field \in StatusComparedFields :
      (/\ field.value \notin C11_MissingSet
       /\ NormalizedOf(field.kind, field.value) # ReferenceOf(field.kind))
        => MismatchRecorded(field) # {}

(***************************************************************************)
(* C12 amended: with a matched reference, for every other source and for   *)
(* each of Address and Phone, whenever the normalized source value is      *)
(* non-empty and not in the missing set, the normalized reference value is *)
(* non-empty and the two differ, exactly one mismatch discrepancy is       *)
(* recorded for that source and field; its action text carries both        *)
(* values and is part of the returned action, its category part of the     *)
(* returned status.  With an empty or absent reference value no mismatch   *)
(* is recorded.                                                            *)
(***************************************************************************)
C12_MismatchOfNonEmptyValues ==
  StatusMatched =>
    \A field \in StatusComparedFields :
      LET value == NormalizedOf(field.kind, field.value)
          gbp   == ReferenceOf(field.kind)
      IN /\ (/\ value \notin C11_MissingSet
             /\ value # None
             /\ gbp \notin {None, << >>}
             /\ value # gbp)
              => /\ Cardinality(MismatchRecorded(field)) = 1
                 /\ \A i \in MismatchRecorded(field) :
                      /\ Contains(StatusFindings[i].action, value)
                      /\ Contains(StatusFindings[i].action, gbp)
                      /\ Contains(statusResult[2], StatusFindings[i].action)
                 /\ Contains(statusResult[1], field.issue)
         /\ gbp \in {None, << >>} => MismatchRecorded(field) = {}

\* a mismatch is recorded for the website address and for the listings phone
C12_Witness ==
  /\ StatusMatched
  /\ statusWebsite # NoneDict
  /\ statusYext # NoneDict
  /\ \E field \in StatusComparedFields :
       /\ field.issue = IssueWebsiteAddress
       /\ field.value = AddrElm
       /\ Cardinality(MismatchRecorded(field)) = 1
  /\ \E field \in StatusComparedFields :
       /\ field.issue = IssueYextPhone
       /\ field.value = PhoneOther
       /\ Cardinality(MismatchRecorded(field)) = 1
  /\ Contains(statusResult[1], IssueWebsiteAddress)
  /\ Contains(statusResult[1], IssueYextPhone)

\* the places of s where the separator sep stands
CutsOf(s, sep) == {i \in 1..Len(s) : MatchesAt(s, sep, i)}

\* the k-th place of cuts, Len(s) + 1 past the last one
CutAt(s, cuts, k) ==
  IF k > Cardinality(cuts) THEN Len(s) + 1
  ELSE CHOOSE c \in cuts : Cardinality({d \in cuts : d < c}) = k - 1

\* s.split(sep), for a separator whose occurrences do not overlap
SplitBy(s, sep) ==
  [k \in 1..(Cardinality(CutsOf(s, sep)) + 1) |->
     Slice(s,
           IF k = 1 THEN 1 ELSE CutAt(s, CutsOf(s, sep), k - 1) + Len(sep),
           CutAt(s, CutsOf(s, sep), k) - 1)]

\* the categories of the returned status and the texts of the returned action
StatusCategories == SplitBy(statusResult[1], <<" ", "/", " ">>)

StatusActions == SplitBy(statusResult[2], <<" ", "|", " ">>)

CategoryField(category) ==
  IF Contains(category, <<"A","d","d","r","e","s","s">>) THEN "address"
  ELSE IF Contains(category, <<"P","h","o","n","e">>) THEN "phone"
  ELSE "formatting"

\* the source tag of a category, as a rank in the alphabetical order of the
\* tags Schema, Website, Yext
CategorySource(category) ==
  IF Contains(category, <<"S","c","h","e","m","a">>) THEN 1
  ELSE IF Contains(category, <<"W","e","b","s","i","t","e">>) THEN 2
  ELSE 3

\* the rank of a field within one source
FieldRank(field) ==
  IF field = "formatting" THEN 0 ELSE IF field = "address" THEN 1 ELSE 2

(***************************************************************************)
(* C14 as stated: the discrepancies are ordered by field first and by      *)
(* source tag second, so that all discrepancies of one field stand         *)
(* together, whatever the order of the fields.                             *)
(***************************************************************************)
C14_Original ==
  StatusMatched =>
    \A i, j, k \in DOMAIN StatusCategories :
      (/\ i < j
       /\ j < k
       /\ CategoryField(StatusCategories[i]) = CategoryField(StatusCategories[k]))
        => CategoryField(StatusCategories[j]) = CategoryField(StatusCategories[i])

(***************************************************************************)
(* C14 amended: the discrepancy categories reported by                     *)
(* determine_match_status are ordered by source tag first (Schema, Website,*)
(* Yext) and by field second (the formatting issue, then Address, then     *)
(* Phone): all discrepancies of one source are listed together before      *)
(* those of the next source.                                               *)
(***************************************************************************)
C14_OrderedBySourceThenField ==
  StatusMatched =>
    \A i, j \in DOMAIN StatusCategories :
      i < j =>
        \/ CategorySource(StatusCategories[i])
             < CategorySource(StatusCategories[j])
        \/ /\ CategorySource(StatusCategories[i])
                = CategorySource(StatusCategories[j])
           /\ FieldRank(CategoryField(StatusCategories[i]))
                < FieldRank(CategoryField(StatusCategories[j]))

\* all six address and phone discrepancies together: the phone of the
\* structured data stands before the address of the website
C14_Witness ==
  /\ StatusMatched
  /\ Len(StatusCategories) = 6
  /\ StatusCategories[1] = IssueSchemaAddress
  /\ StatusCategories[2] = IssueSchemaPhone
  /\ StatusCategories[3] = IssueWebsiteAddress
  /\ StatusCategories[4] = IssueWebsitePhone
  /\ StatusCategories[5] = IssueYextAddress
  /\ StatusCategories[6] = IssueYextPhone

\* the names a record of the call is given instead of its own
OtherNames == {NameAcme, NameZedRoofing, NotAvailable, Empty}

\* the records of the call under other names
RenamedWebsite(website_data, name, schema_name) ==
  IF website_data = NoneDict THEN NoneDict
  ELSE IF website_data.schema = NoneDict
    THEN [website_data EXCEPT !.name = name]
  ELSE [website_data EXCEPT !.name = name, !.schema.name = schema_name]

RenamedYext(yext_data, name) ==
  IF yext_data = NoneDict THEN NoneDict ELSE [yext_data EXCEPT !.name = name]

(***************************************************************************)
(* C15: name fields never influence the audit status: with a matched       *)
(* reference, changing the name of the reference, website, structured-data *)
(* or listings record while every address and phone stays the same leaves  *)
(* the status and the action of determine_match_status unchanged.          *)
(***************************************************************************)
C15_NamesDoNotCount ==
  StatusMatched =>
    \A g, w, s, y \in OtherNames :
      determine_match_status([statusGbp EXCEPT !.name = g],
                             RenamedWebsite(statusWebsite, w, s),
                             RenamedYext(statusYext, y))
        = statusResult

\* a call whose three names all differ and whose result is 'All Good'
C15_Witness ==
  /\ StatusMatched
  /\ statusWebsite # NoneDict
  /\ statusYext # NoneDict
  /\ statusWebsite.name # statusGbp.name
  /\ statusWebsite.schema.name # statusGbp.name
  /\ statusYext.name # statusGbp.name
  /\ statusResult[1] = StatusAllGood
  /\ determine_match_status([statusGbp EXCEPT !.name = NameZedRoofing],
                            statusWebsite, statusYext) = statusResult

\* the digit characters of a text, in their order
DigitsOf(text) == SelectSeq(text, LAMBDA c : c \in DigitChars)

\* a text in lower case, without commas, its words one space apart
LooseAddress(address) ==
  CollapseSpaces(SelectSeq(StrLower(address), LAMBDA c : c # ","))

\* the digits of a phone without the country code 1
LoosePhone(phone) ==
  IF Len(DigitsOf(phone)) = 11 /\ Head(DigitsOf(phone)) = "1"
    THEN Tail(DigitsOf(phone))
    ELSE DigitsOf(phone)

\* the raw reference value a compared field is held against
RawReferenceOf(kind) ==
  IF kind = "address" THEN statusGbp.address ELSE statusGbp.phone

\* the structured data of the call reports no formatting error
NoFormattingError ==
  \/ statusWebsite = NoneDict
  \/ statusWebsite.schema = NoneDict
  \/ statusWebsite.schema.formatting_error = << >>

WidenAt(address, k) ==
  SubSeq(address, 1, k) \o <<address[k]>> \o SubSeq(address, k + 1, Len(address))

\* the address with spaces and commas added where the normalizer removes
\* them: one space or comma doubled, spaces and commas around it
AddressVariants(address) ==
  {lead \o mid \o trail :
     lead \in {<< >>, <<" ">>, <<",">>},
     mid \in {address}
               \cup {WidenAt(address, k) :
                       k \in {i \in DOMAIN address : address[i] \in {" ", ","}}},
     trail \in {<< >>, <<" ">>, <<",">>, <<",", ",">>}}

\* the ten digits d written the usual ways, and the '+1' form
PhoneVariants(d) ==
  {d,
   SubSeq(d, 1, 3) \o <<".">> \o SubSeq(d, 4, 6) \o <<".">> \o SubSeq(d, 7, 10),
   SubSeq(d, 1, 3) \o <<"-">> \o SubSeq(d, 4, 6) \o <<"-">> \o SubSeq(d, 7, 10),
   <<"(">> \o SubSeq(d, 1, 3) \o <<")", " ">> \o SubSeq(d, 4, 6) \o <<"-">>
     \o SubSeq(d, 7, 10),
   <<"+", "1">> \o d}

NameComfortKeepers ==
  <<"C","o","m","f","o","r","t"," ","K","e","e","p","e","r","s"," ","H","o","m","e"," ","C","a","r","e">>

\* line 232
ComfortKeepersNormalized ==
  <<"c","o","m","f","o","r","t"," ","k","e","e","p","e","r","s"," ","h","o","m","e"," ","c","a","r","e">>

UrlComfortColumbia ==
  <<"h","t","t","p","s",":","/","/","w","w","w",".","c","o","m","f","o","r","t","k","e","e","p","e","r","s",".","c","o","m","/","c","o","l","u","m","b","i","a","?","s","r","c","=","g","b","p">>

UrlComfortDayton ==
  <<"h","t","t","p","s",":","/","/","w","w","w",".","c","o","m","f","o","r","t","k","e","e","p","e","r","s",".","c","o","m","/","o","f","f","i","c","e","s","/","d","a","y","t","o","n">>

Line1Main ==
  <<"1"," ","M","a","i","n"," ","S","t">>

CityColumbia ==
  <<"C","o","l","u","m","b","i","a">>

ZipColumbia ==
  <<"6","5","2","0","1">>

Line1Elm ==
  <<"9"," ","E","l","m"," ","A","v","e">>

\* the separator of ', '.join(address_parts)
CommaSpace ==
  <<","," ">>

\* line 241: url_score >= 0.8
URL_THRESHOLD == Frac(8, 10)

\* line 242: score = 0.85
URL_SCORE == Frac(85, 100)

\* entity['address']; an absent key is None
EntityAddress(line1, city, region, postalCode) ==
  [line1 |-> line1, city |-> city, region |-> region,
   postalCode |-> postalCode]

\* one entity of a page; an absent key is None, an absent address NoneDict;
\* websiteUrl is the text of entity['websiteUrl']['url']
Entity(name, address, mainPhone, websiteUrl) ==
  [name |-> name, address |-> address, mainPhone |-> mainPhone,
   websiteUrl |-> websiteUrl]

\* response2 of one page request: it raises, or has a status code and,
\* with 200, the entities of the page (hasEntities: both keys present)
EntitiesPage(entities) ==
  [raises |-> FALSE, status |-> 200, hasEntities |-> TRUE,
   entities |-> entities]

PageWithoutEntities ==
  [raises |-> FALSE, status |-> 200, hasEntities |-> FALSE, entities |-> << >>]

PageHttpError ==
  [raises |-> FALSE, status |-> 500, hasEntities |-> FALSE, entities |-> << >>]

PageRaises ==
  [raises |-> TRUE, status |-> 0, hasEntities |-> FALSE, entities |-> << >>]

\* the accounts request raises, or answers with a status code and accounts
YextService(raises, status, accounts) ==
  [raises |-> raises, status |-> status, accounts |-> accounts]

RECURSIVE FindChar(_, _, _)
\* the first position from i on of a character of chars, Len(s) + 1 if none
FindChar(s, chars, i) ==
  IF i > Len(s) THEN i
  ELSE IF s[i] \in chars THEN i
  ELSE FindChar(s, chars, i + 1)

SchemeChars == UpperChars \cup LowerChars \cup DigitChars \cup {"+", "-", "."}

\* urlparse(url).path: the scheme, the netloc after '//', the fragment, the
\* query and the parameters of the last segment removed
UrlPath(url) ==
  LET colon     == FindChar(url, {":"}, 1)
      hasScheme == /\ colon <= Len(url)
                   /\ colon > 1
                   /\ url[1] \in UpperChars \cup LowerChars
                   /\ \A k \in 1..(colon - 1) : url[k] \in SchemeChars
      rest      == IF hasScheme THEN Slice(url, colon + 1, Len(url)) ELSE url
      hasNetloc == Len(rest) >= 2 /\ rest[1] = "/" /\ rest[2] = "/"
      afterNet  == IF hasNetloc
                     THEN Slice(rest, FindChar(rest, {"/", "?", "#"}, 3),
                                Len(rest))
                     ELSE rest
      noFrag    == Slice(afterNet, 1, FindChar(afterNet, {"#"}, 1) - 1)
      noQuery   == Slice(noFrag, 1, FindChar(noFrag, {"?"}, 1) - 1)
      slashes   == {k \in 1..Len(noQuery) : noQuery[k] = "/"}
      lastSlash == IF slashes = {} THEN 0
                   ELSE CHOOSE k \in slashes : \A j \in slashes : j <= k
  IN Slice(noQuery, 1, FindChar(noQuery, {";"}, lastSlash + 1) - 1)

\* a JSON null, which json() turns into None: the key is there, the value
\* is not a string
JsonNull == <<"<null>">>

\* line 202: entity_name.lower() raises AttributeError on a null name
EntityRaises(entity) == entity.name = JsonNull

\* entity.get('name', '')
EntityName(entity) == IF entity.name = None THEN Empty ELSE entity.name

\* entity.get('websiteUrl', {}).get('url', '')
EntityUrl(entity) ==
  IF entity.websiteUrl = None THEN Empty ELSE entity.websiteUrl

\* lines 212-218 and 246-252
address_parts(entity) ==
  IF entity.address = NoneDict THEN << >>
  ELSE SelectSeq(<<entity.address.line1, entity.address.city,
                   entity.address.region, entity.address.postalCode>>,
                 LAMBDA part : part # None)

\* lines 219-229 and 253-263: best_match
YextRecord(entity) ==
  [name |-> EntityName(entity),
   address |-> Join(address_parts(entity), CommaSpace),
   phone |-> IF entity.mainPhone = None THEN Empty ELSE entity.mainPhone,
   website |-> EntityUrl(entity),
   entity |-> entity]

\* best_score and best_match of the scan; failed: a request has raised
YextBest(score, match, failed) ==
  [score |-> score, match |-> match, failed |-> failed]

\* the name threshold dropped
QualifiesByName_Mutant(score, best_score) == FracLt(best_score, score)

\* line 208: score > best_score and score >= 0.7
QualifiesByName(score, best_score) ==
  FracLt(best_score, score) /\ FracLe(MATCH_THRESHOLD, score)

\* the URL comparison made for an entity of any name
QualifiesByUrl_Mutant(gbp_website_url, entity, best_score) ==
  /\ FracLt(best_score, MATCH_THRESHOLD)
  /\ Truthy(gbp_website_url)
  /\ Truthy(EntityUrl(entity))
  /\ FracLe(URL_THRESHOLD,
            SequenceRatio(UrlPath(gbp_website_url),
                          UrlPath(EntityUrl(entity))))
  /\ FracLt(best_score, URL_SCORE)

\* lines 232-243: the URL comparison applies and reaches 0.8
QualifiesByUrl(gbp_website_url, entity, best_score) ==
  /\ FracLt(best_score, MATCH_THRESHOLD)
  /\ Truthy(gbp_website_url)
  /\ Strip(StrLower(EntityName(entity))) = ComfortKeepersNormalized
  /\ Truthy(EntityUrl(entity))
  /\ FracLe(URL_THRESHOLD,
            SequenceRatio(UrlPath(gbp_website_url),
                          UrlPath(EntityUrl(entity))))
  /\ FracLt(best_score, URL_SCORE)

\* lines 208-229: the entity taken for the score of its name
BestByName(score, entity, best) ==
  IF QualifiesByName(score, best.score)
    THEN YextBest(score, YextRecord(entity), FALSE)
    ELSE best

\* lines 232-263: the entity taken for its URL
BestByUrl(gbp_website_url, entity, best) ==
  IF QualifiesByUrl(gbp_website_url, entity, best.score)
    THEN YextBest(URL_SCORE, YextRecord(entity), FALSE)
    ELSE best

\* lines 201-263: one entity of the page
ScanEntity(business_name, gbp_website_url, entity, best) ==
  BestByUrl(gbp_website_url, entity,
            BestByName(calculate_similarity_score(business_name,
                                                  EntityName(entity)),
                       entity, best))

RECURSIVE ScanEntities(_, _, _, _, _)
\* line 200: for entity in entities
ScanEntities(business_name, gbp_website_url, entities, i, best) ==
  IF i > Len(entities) THEN best
  ELSE IF EntityRaises(entities[i])
    THEN YextBest(best.score, best.match, TRUE)
  ELSE ScanEntities(business_name, gbp_website_url, entities, i + 1,
                    ScanEntity(business_name, gbp_website_url, entities[i],
                               best))

\* the scan going on after a good match
StopsScan_Mutant(after) == after.failed

\* lines 266-267 and 276-277: if best_score >= 0.7: break; an exception has
\* left the loops as well
StopsScan(after) == after.failed \/ FracLe(MATCH_THRESHOLD, after.score)

RECURSIVE ScanPages(_, _, _, _, _)
\* lines 266-273: after the entities of a page, stop on a good match (or on
\* the exception that left the loops) or on the last page, else fetch the
\* next page
AfterPage(business_name, gbp_website_url, pages, p, after) ==
  IF StopsScan(after) THEN after
  ELSE IF p < Len(pages)
    THEN ScanPages(business_name, gbp_website_url, pages, p + 1, after)
  ELSE after

\* lines 180-273: the pages of one account; a page carries a pageToken while
\* another page follows it
ScanPages(business_name, gbp_website_url, pages, p, best) ==
  IF pages[p].raises THEN YextBest(best.score, best.match, TRUE)
  ELSE IF pages[p].status # 200 \/ ~pages[p].hasEntities THEN best
  ELSE AfterPage(business_name, gbp_website_url, pages, p,
                 ScanEntities(business_name, gbp_website_url,
                              pages[p].entities, 1, best))

RECURSIVE ScanAccounts(_, _, _, _, _)
\* lines 276-277: after the pages of an account, stop on a good match (or on
\* the exception that left the loops), else take the next account
AfterAccount(business_name, gbp_website_url, accounts, a, after) ==
  IF StopsScan(after) THEN after
  ELSE ScanAccounts(business_name, gbp_website_url, accounts, a + 1, after)

\* lines 176-277: for account in accounts
ScanAccounts(business_name, gbp_website_url, accounts, a, best) ==
  IF a > Len(accounts) THEN best
  ELSE AfterAccount(business_name, gbp_website_url, accounts, a,
                    ScanPages(business_name, gbp_website_url, accounts[a], 1,
                              best))

\* the best match so far returned from the except clause as well
ReturnOfScan_Mutant(best) == best.match

\* lines 279-282: return best_match, or None from the except clause
ReturnOfScan(best) == IF best.failed THEN NoneDict ELSE best.match

\* returns best_match, NoneDict for None
search_yext(business_name, gbp_website_url, service) ==
  IF service.raises \/ service.status # 200 THEN NoneDict
  ELSE ReturnOfScan(ScanAccounts(business_name, gbp_website_url,
                                 service.accounts, 1,
                                 YextBest(Frac(0, 1), NoneDict, FALSE)))

\* line 163: the request for the accounts
AccountsRequest == <<0, 0>>

RECURSIVE PageRequests(_, _, _, _, _, _)
\* lines 266-273: another page is asked for only after a page whose entities
\* were scanned without a good match, and which carried a pageToken
MorePageRequests(business_name, gbp_website_url, pages, a, p, after) ==
  IF StopsScan(after) \/ p >= Len(pages) THEN << >>
    ELSE PageRequests(business_name, gbp_website_url, pages, a, p + 1, after)

\* lines 185-198: the requests <<a, p>> for the pages of account a from page
\* p on
PageRequests(business_name, gbp_website_url, pages, a, p, best) ==
  <<<<a, p>>>> \o
    IF pages[p].raises \/ pages[p].status # 200 \/ ~pages[p].hasEntities
      THEN << >>
      ELSE MorePageRequests(business_name, gbp_website_url, pages, a, p,
                            ScanEntities(business_name, gbp_website_url,
                                         pages[p].entities, 1, best))

RECURSIVE AccountRequests(_, _, _, _, _)
\* lines 276-277: the next account is taken only without a good match
MoreAccountRequests(business_name, gbp_website_url, accounts, a, after) ==
  IF StopsScan(after) THEN << >>
  ELSE AccountRequests(business_name, gbp_website_url, accounts, a + 1, after)

\* lines 176-277: the page requests of the accounts from account a on
AccountRequests(business_name, gbp_website_url, accounts, a, best) ==
  IF a > Len(accounts) THEN << >>
  ELSE PageRequests(business_name, gbp_website_url, accounts[a], a, 1, best)
         \o MoreAccountRequests(business_name, gbp_website_url, accounts, a,
                                ScanPages(business_name, gbp_website_url,
                                          accounts[a], 1, best))

\* the requests.get calls of search_yext, in order
search_yext_requests(business_name, gbp_website_url, service) ==
  <<AccountsRequest>> \o
    IF service.raises \/ service.status # 200 THEN << >>
    ELSE AccountRequests(business_name, gbp_website_url, service.accounts, 1,
                         YextBest(Frac(0, 1), NoneDict, FALSE))

(***************************************************************************)
(* NAPAuditor.extract_schema_data and scrape_website_info (src/nap.py).    *)
(* A page is what the browser returned: its title, the parsed ld+json      *)
(* scripts, and what the address and phone patterns find in its text.      *)
(***************************************************************************)
TypeLocalBusiness ==
  <<"L","o","c","a","l","B","u","s","i","n","e","s","s">>

TypeOrganization ==
  <<"O","r","g","a","n","i","z","a","t","i","o","n">>

\* line 566: 'Business' in str(data['@type'])
TextBusiness ==
  <<"B","u","s","i","n","e","s","s">>

\* line 603
ErrInvalidJson ==
  <<"I","n","v","a","l","i","d"," ","J","S","O","N"," ","i","n"," ","s","c","h","e","m","a",".","o","r","g"," ","s","c","r","i","p","t">>

\* line 605
ErrParsingPrefix ==
  <<"E","r","r","o","r"," ","p","a","r","s","i","n","g"," ","s","c","h","e","m","a",":"," ">>

\* line 596
ErrMissingType ==
  <<"M","i","s","s","i","n","g"," ","@","t","y","p","e">>

\* line 598: '; '.join(errors)
ErrorSeparator ==
  <<";"," ">>

MsgNotIterable ==
  <<"a","r","g","u","m","e","n","t"," ","o","f"," ","t","y","p","e"," ","'","i","n","t","'"," ","i","s"," ","n","o","t"," ","i","t","e","r","a","b","l","e">>

TitleAcmePadded ==
  <<" "," ","A","c","m","e"," ","P","l","u","m","b","i","n","g"," ","|"," ","H","o","m","e","\n">>

TextAddressMatch ==
  <<"1"," ","M","a","i","n"," ","S","t","\n","\n"," "," ","C","o","l","u","m","b","i","a",","," "," ","M","O"," ","6","5","2","0","1">>

CityPadded ==
  <<"\n"," ","C","o","l","u","m","b","i","a">>

PhoneDotted ==
  <<"5","7","3",".","5","5","5",".","0","1","0","1">>

StateMO ==
  <<"M","O">>

\* data['address']: absent, a string, a dict of parts (an absent part is
\* None) or a value of another type
LdAddress(kind, text, street, locality, region, postal) ==
  [kind |-> kind, text |-> text, streetAddress |-> street,
   addressLocality |-> locality, addressRegion |-> region,
   postalCode |-> postal]

LdAddressAbsent == LdAddress("absent", None, None, None, None, None)

LdAddressText(text) == LdAddress("str", text, None, None, None, None)

LdAddressParts(street, locality, region, postal) ==
  LdAddress("dict", None, street, locality, region, postal)

LdAddressOther == LdAddress("other", None, None, None, None, None)

\* the object of one ld+json script; an absent key is None
LdJson(type, hasContext, name, address, telephone, telePhone, phone) ==
  [type |-> type, hasContext |-> hasContext, name |-> name,
   address |-> address, telephone |-> telephone, telePhone |-> telePhone,
   phone |-> phone]

\* the empty object {} an empty list stands for (line 565)
LdEmpty == LdJson(None, FALSE, None, LdAddressAbsent, None, None, None)

\* json.loads(script.string): a JSONDecodeError, another exception with its
\* message, or the object (the first item of a list)
ScriptInvalid == [kind |-> "invalid", message |-> Empty, data |-> LdEmpty]

ScriptError(message) ==
  [kind |-> "error", message |-> message, data |-> LdEmpty]

ScriptObject(data) == [kind |-> "object", message |-> Empty, data |-> data]

\* lines 551-556
SchemaDefault == SchemaData(NotAvailable, NotAvailable, NotAvailable, Empty)

\* lines 568-582
SchemaAddress(addr, default) ==
  IF addr.kind = "dict"
    THEN Join(SelectSeq(<<addr.streetAddress, addr.addressLocality,
                          addr.addressRegion, addr.postalCode>>,
                        LAMBDA part : part # None),
              CommaSpace)
  ELSE IF addr.kind = "str" THEN addr.text
  ELSE default

\* lines 584-588: the first of 'telephone', 'telePhone', 'phone'
SchemaPhone(data, default) ==
  IF data.telephone # None THEN data.telephone
  ELSE IF data.telePhone # None THEN data.telePhone
  ELSE IF data.phone # None THEN data.phone
  ELSE default

\* lines 590-598
SchemaErrors(data) ==
  Join((IF data.telePhone # None THEN <<ErrTelePhone>> ELSE << >>)
         \o (IF ~data.hasContext THEN <<ErrMissingContext>> ELSE << >>)
         \o (IF data.type = None THEN <<ErrMissingType>> ELSE << >>),
       ErrorSeparator)

\* line 566
IsBusiness(data) == data.type # None /\ Contains(data.type, TextBusiness)

RECURSIVE ScanScripts(_, _, _)
\* lines 561-605: for script in schema_scripts
ScanScripts(scripts, i, schema_data) ==
  IF i > Len(scripts) THEN schema_data
  ELSE IF scripts[i].kind = "invalid"
    THEN ScanScripts(scripts, i + 1,
                     [schema_data EXCEPT !.formatting_error = ErrInvalidJson])
  ELSE IF scripts[i].kind = "error"
    THEN ScanScripts(scripts, i + 1,
                     [schema_data EXCEPT !.formatting_error =
                        ErrParsingPrefix \o scripts[i].message])
  ELSE IF IsBusiness(scripts[i].data)
    THEN LET data == scripts[i].data
         IN SchemaData(IF data.name = None THEN NotAvailable ELSE data.name,
                       SchemaAddress(data.address, schema_data.address),
                       SchemaPhone(data, schema_data.phone),
                       SchemaErrors(data))
  ELSE ScanScripts(scripts, i + 1, schema_data)

extract_schema_data(scripts) == ScanScripts(scripts, 1, SchemaDefault)

\* driver.get(url) and the parse: it raises, or gives the page.  title is
\* None without a title element; addressMatch, simpleMatch and phoneMatch
\* are what the patterns of lines 475-485, 496-497 and 507-519 find in the
\* page text, None when they find nothing
WebPage(title, scripts, addressMatch, simpleMatch, phoneMatch) ==
  [raises |-> FALSE, title |-> title, scripts |-> scripts,
   addressMatch |-> addressMatch, simpleMatch |-> simpleMatch,
   phoneMatch |-> phoneMatch]

PageLoadFails ==
  [raises |-> TRUE, title |-> None, scripts |-> << >>, addressMatch |-> None,
   simpleMatch |-> None, phoneMatch |-> None]

RECURSIVE ReSubNewlines(_, _)
\* re.sub(r'[\r\n]+', ' ', s)
ReSubNewlines(s, i) ==
  IF i > Len(s) THEN << >>
  ELSE IF s[i] = "\n"
    THEN (IF i > 1 /\ s[i - 1] = "\n" THEN << >> ELSE <<" ">>)
           \o ReSubNewlines(s, i + 1)
  ELSE <<s[i]>> \o ReSubNewlines(s, i + 1)

\* lines 473-500
AddressFallback(page) ==
  IF page.addressMatch # None
    THEN StripBy(ReSubRuns(ReSubNewlines(Strip(page.addressMatch), 1),
                           SpaceChars, <<" ">>),
                 {",", " "})
  ELSE IF page.simpleMatch # None
    THEN Strip(page.simpleMatch[1]) \o CommaSpace \o page.simpleMatch[2]
           \o <<" ">> \o page.simpleMatch[3]
  ELSE Empty

\* lines 505-524
PhoneFallback(page) ==
  IF page.phoneMatch # None THEN normalize_phone(page.phoneMatch) ELSE Empty

\* the patterns tried whenever they find something in the text
scrape_website_info_Mutant(url, page) ==
  IF ~Truthy(url) THEN NoneDict
  ELSE IF page.raises THEN NoneDict
  ELSE LET schema == extract_schema_data(page.scripts)
       IN WebsiteData(IF page.title = None THEN Empty ELSE Strip(page.title),
                      IF AddressFallback(page) = Empty THEN schema.address
                        ELSE AddressFallback(page),
                      IF PhoneFallback(page) = Empty THEN schema.phone
                        ELSE PhoneFallback(page),
                      schema)

\* returns website_data, NoneDict for None
scrape_website_info(url, page) ==
  IF ~Truthy(url) THEN NoneDict
  ELSE IF page.raises THEN NoneDict
  ELSE LET schema == extract_schema_data(page.scripts)
       IN WebsiteData(IF page.title = None THEN Empty ELSE Strip(page.title),
                      IF Truthy(schema.address) THEN schema.address
                        ELSE AddressFallback(page),
                      IF Truthy(schema.phone) THEN schema.phone
                        ELSE PhoneFallback(page),
                      schema)

(***************************************************************************)
(* NAPAuditor.process_business (src/nap.py) run by process_audit_batch     *)
(* (src/tasks.py).  The task walks business_names; for each name           *)
(* process_business takes its steps one after the other, and an exception  *)
(* raised before its row is appended is caught by the loop of the task.    *)
(***************************************************************************)
\* tasks.py lines 95-108
TextError ==
  <<"E","r","r","o","r">>

\* tasks.py line 109
ErrorActionPrefix ==
  <<"E","r","r","o","r"," ","d","u","r","i","n","g"," ","p","r","o","c","e","s","s","i","n","g",":"," ">>

MsgBrokenPipe ==
  <<"[","E","r","r","n","o"," ","3","2","]"," ","B","r","o","k","e","n"," ","p","i","p","e">>

\* the longest batch the model hands to process_audit_batch
MaxBatch == 2

BatchQueries == {QueryAcmePlumbing, QueryAcmeMidMO}

BatchInputs == SeqsUpTo(BatchQueries, MaxBatch)

\* what the Places request does for one business
BatchResponses ==
  {ResponseRaises(MsgTimeout), ResponsePlaces(<< >>),
   ResponsePlaces(<<PlaceAcmeColumbia>>), ResponsePlaces(<<PlaceMidMissouri>>),
   ResponsePlaces(<<PlaceZedToledo>>)}

EntityAcme ==
  Entity(NameAcmePlumbing,
         EntityAddress(Line1Main, CityColumbia, StateMO, ZipColumbia),
         PhoneColumbiaPlain, UrlAcmeColumbia)

\* what the listings service does for one business
BatchServices ==
  {YextService(FALSE, 500, << >>),
   YextService(FALSE, 200, <<<<EntitiesPage(<<EntityAcme>>)>>>>)}

PageAcme ==
  WebPage(TitleAcmePadded,
          <<ScriptObject(LdJson(TypeLocalBusiness, TRUE, NameAcme,
                                LdAddressText(AddrColumbiaMessy),
                                PhoneDotted, None, None))>>,
          None, None, None)

\* what the browser does for one business
BatchPages == {PageLoadFails, PageAcme}

\* the exceptions that escape process_business
BatchErrors == {MsgBrokenPipe}

\* one row of auditor.results
AuditRow(input, gbp_data, website_data, yext_data, match_status, action_needed) ==
  [input |-> input,
   gbp_name |-> gbp_data.name, gbp_address |-> gbp_data.address,
   gbp_website |-> gbp_data.website, gbp_phone |-> gbp_data.phone,
   website_name |-> website_data.name,
   website_address |-> website_data.address,
   website_phone |-> website_data.phone,
   yext_name |-> yext_data.name, yext_address |-> yext_data.address,
   yext_phone |-> yext_data.phone,
   schema_name |-> website_data.schema.name,
   schema_address |-> website_data.schema.address,
   schema_phone |-> website_data.schema.phone,
   match_status |-> match_status, action_needed |-> action_needed]

\* tasks.py lines 93-110: the row of a business whose processing raised
ErrorRow(input, message) ==
  LET error == [name |-> TextError, address |-> TextError,
                website |-> TextError, phone |-> TextError,
                schema |-> [name |-> TextError, address |-> TextError,
                            phone |-> TextError]]
  IN AuditRow(input, error, error, error, TextError,
              ErrorActionPrefix \o message)

\* nap.py lines 776-787: gbp_data after the search
GbpOfSearch(raw_gbp_data) ==
  IF raw_gbp_data.status = "match"
    THEN GbpData("match", raw_gbp_data.name, raw_gbp_data.address,
                 raw_gbp_data.website, raw_gbp_data.phone, None)
    ELSE GbpData(raw_gbp_data.status, NotAvailableNoCloseMatch,
                 NotAvailableNoCloseMatch, NotAvailableNoCloseMatch,
                 NotAvailableNoCloseMatch, raw_gbp_data.closest_match_name)

\* nap.py lines 784 and 788: gbp_website_url
UrlOfSearch(raw_gbp_data) ==
  IF raw_gbp_data.status = "match" THEN raw_gbp_data.website ELSE None

\* nap.py lines 794-803: yext_data after the lookup
YextOfLookup(raw_yext_data, yext_data) ==
  IF raw_yext_data # NoneDict
    THEN YextData(raw_yext_data.name, raw_yext_data.address,
                  raw_yext_data.phone)
    ELSE yext_data

\* nap.py line 805
ShouldScrape(gbp_website_url) ==
  Truthy(gbp_website_url) /\ gbp_website_url # NotAvailableNoCloseMatch

\* the failure sentinel not written
WebsiteOfScrape_Mutant(raw_website_data) ==
  IF raw_website_data # NoneDict THEN raw_website_data ELSE WebsiteInitial

\* nap.py lines 807-832: website_data after the scrape
WebsiteOfScrape(raw_website_data) ==
  IF raw_website_data # NoneDict THEN raw_website_data ELSE WebsiteFailed

\* the scrape placed before the listings lookup
NextStep_Mutant(step) ==
  CASE step = "search" -> "scrape"
    [] step = "scrape" -> "listings"
    [] step = "listings" -> "reconcile"
    [] step = "reconcile" -> "sleep"

\* nap.py lines 773, 793, 806, 837 and tasks.py line 89: the order of the
\* steps of one business
NextStep(step) ==
  CASE step = "search" -> "listings"
    [] step = "listings" -> "scrape"
    [] step = "scrape" -> "reconcile"
    [] step = "reconcile" -> "sleep"

\* tasks.py line 85: the loop goes to the next name, or ends
AfterBusiness(names, i) == IF i < Len(names) THEN "search" ELSE "extend"

\* the error rows dropped
ExtendResults_Mutant(rows, error_rows) == rows

\* tasks.py line 113: auditor.results.extend(results)
ExtendResults(rows, error_rows) == rows \o error_rows

BatchInit ==
  /\ SearchIdle
  /\ StatusIdle
  /\ WsgiIdle
  /\ CallIdle
  /\ TaskIdle
  /\ ApiIdle
  /\ business_names \in BatchInputs
  /\ index = 1
  /\ pc = AfterBusiness(business_names, 0)
  /\ cur_gbp_data = NoneDict
  /\ cur_gbp_website_url = None
  /\ cur_yext_data = NoneDict
  /\ cur_raw_website_data = NoneDict
  /\ cur_website_data = NoneDict
  /\ auditor_results = << >>
  /\ results = << >>
  /\ steps = << >>

\* nap.py lines 747-790: the data holders and the reference search
StepSearch ==
  /\ pc = "search"
  /\ \E response \in BatchResponses :
       LET raw_gbp_data == search_google_place(business_names[index], response)
       IN /\ cur_gbp_data' = GbpOfSearch(raw_gbp_data)
          /\ cur_gbp_website_url' = UrlOfSearch(raw_gbp_data)
  /\ cur_yext_data' = YextInitial
  /\ cur_website_data' = WebsiteInitial
  /\ steps' = Append(steps, "search")
  /\ pc' = NextStep("search")
  /\ UNCHANGED <<business_names, index, cur_raw_website_data,
                 auditor_results, results>>
  /\ UNCHANGED <<searchVars, statusVars, wsgiVars, callVars>>
  /\ UNCHANGED <<taskVars, apiVars>>

\* nap.py lines 792-803: the listings lookup
StepListings ==
  /\ pc = "listings"
  /\ \E service \in BatchServices :
       cur_yext_data' =
         YextOfLookup(search_yext(business_names[index], cur_gbp_data.website,
                                  service),
                      cur_yext_data)
  /\ steps' = Append(steps, "listings")
  /\ pc' = NextStep("listings")
  /\ UNCHANGED <<business_names, index, cur_gbp_data, cur_gbp_website_url,
                 cur_raw_website_data, cur_website_data, auditor_results,
                 results>>
  /\ UNCHANGED <<searchVars, statusVars, wsgiVars, callVars>>
  /\ UNCHANGED <<taskVars, apiVars>>

\* nap.py lines 805-832: the website scrape
StepScrape ==
  /\ pc = "scrape"
  /\ ShouldScrape(cur_gbp_website_url)
  /\ \E page \in BatchPages :
       LET raw_website_data == scrape_website_info(cur_gbp_website_url, page)
       IN /\ cur_raw_website_data' = raw_website_data
          /\ cur_website_data' = WebsiteOfScrape(raw_website_data)
  /\ steps' = Append(steps, "scrape")
  /\ pc' = NextStep("scrape")
  /\ UNCHANGED <<business_names, index, cur_gbp_data, cur_gbp_website_url,
                 cur_yext_data, auditor_results, results>>
  /\ UNCHANGED <<searchVars, statusVars, wsgiVars, callVars>>
  /\ UNCHANGED <<taskVars, apiVars>>

\* nap.py lines 833-834: no URL, the scrape is skipped
StepSkipScrape ==
  /\ pc = "scrape"
  /\ ~ShouldScrape(cur_gbp_website_url)
  /\ steps' = Append(steps, "skip_scrape")
  /\ pc' = NextStep("scrape")
  /\ UNCHANGED <<business_names, index, cur_gbp_data, cur_gbp_website_url,
                 cur_yext_data, cur_raw_website_data, cur_website_data,
                 auditor_results, results>>
  /\ UNCHANGED <<searchVars, statusVars, wsgiVars, callVars>>
  /\ UNCHANGED <<taskVars, apiVars>>

\* nap.py lines 836-857: the reconciliation and the row
StepReconcile ==
  /\ pc = "reconcile"
  /\ LET status == determine_match_status(cur_gbp_data, cur_website_data,
                                          cur_yext_data)
     IN auditor_results' =
          Append(auditor_results,
                 AuditRow(business_names[index], cur_gbp_data,
                          cur_website_data, cur_yext_data, status[1],
                          status[2]))
  /\ steps' = Append(steps, "reconcile")
  /\ pc' = NextStep("reconcile")
  /\ UNCHANGED <<business_names, index, cur_gbp_data, cur_gbp_website_url,
                 cur_yext_data, cur_raw_website_data, cur_website_data,
                 results>>
  /\ UNCHANGED <<searchVars, statusVars, wsgiVars, callVars>>
  /\ UNCHANGED <<taskVars, apiVars>>

\* the locals of process_business once it has ended
ForgetBusiness ==
  /\ cur_gbp_data' = NoneDict
  /\ cur_gbp_website_url' = None
  /\ cur_yext_data' = NoneDict
  /\ cur_raw_website_data' = NoneDict
  /\ cur_website_data' = NoneDict
  /\ steps' = << >>

\* tasks.py lines 89 and 85: the pause, then the next name
StepSleep ==
  /\ pc = "sleep"
  /\ index' = index + 1
  /\ pc' = AfterBusiness(business_names, index)
  /\ ForgetBusiness
  /\ UNCHANGED <<business_names, auditor_results, results>>
  /\ UNCHANGED <<searchVars, statusVars, wsgiVars, callVars>>
  /\ UNCHANGED <<taskVars, apiVars>>

\* tasks.py lines 90-110: an exception raised inside process_business before
\* its row is appended; the task records an error row and goes on
StepRaise ==
  /\ pc \in {"search", "listings", "scrape", "reconcile"}
  /\ \E message \in BatchErrors :
       results' = Append(results, ErrorRow(business_names[index], message))
  /\ index' = index + 1
  /\ pc' = AfterBusiness(business_names, index)
  /\ ForgetBusiness
  /\ UNCHANGED <<business_names, auditor_results>>
  /\ UNCHANGED <<searchVars, statusVars, wsgiVars, callVars>>
  /\ UNCHANGED <<taskVars, apiVars>>

\* tasks.py lines 112-119: the error rows join auditor.results, which is
\* returned
StepReturn ==
  /\ pc = "extend"
  /\ auditor_results' = ExtendResults(auditor_results, results)
  /\ pc' = "returned"
  /\ UNCHANGED <<business_names, index, cur_gbp_data, cur_gbp_website_url,
                 cur_yext_data, cur_raw_website_data, cur_website_data,
                 results, steps>>
  /\ UNCHANGED <<searchVars, statusVars, wsgiVars, callVars>>
  /\ UNCHANGED <<taskVars, apiVars>>

BatchNext ==
  \/ StepSearch
  \/ StepListings
  \/ StepScrape
  \/ StepSkipScrape
  \/ StepReconcile
  \/ StepSleep
  \/ StepRaise
  \/ StepReturn

SpecBatch == BatchInit /\ [][BatchNext]_vars

\* the positions of a list of rows that carry the business name n
RowsOf(rows, n) == {j \in 1..Len(rows) : rows[j].input = n}

\* the positions of the batch that hold the business name n
PositionsOf(names, n) == {i \in 1..Len(names) : names[i] = n}

(***************************************************************************)
(* C6: once process_audit_batch has returned, auditor.results holds        *)
(* exactly one row for each entry of business_names, whatever the search,  *)
(* the listings lookup and the scrape did and whether process_business     *)
(* raised: as many rows as names, and for each name as many rows as the    *)
(* batch has entries of that name.                                         *)
(***************************************************************************)
C6_OneRowPerBusiness ==
  pc = "returned" =>
    /\ Len(auditor_results) = Len(business_names)
    /\ \A n \in BatchQueries :
         Cardinality(RowsOf(auditor_results, n))
           = Cardinality(PositionsOf(business_names, n))

C6_Witness ==
  /\ pc = "returned"
  /\ business_names = <<QueryAcmePlumbing, QueryAcmeMidMO>>
  /\ Len(results) = 1
  /\ results[1].input = QueryAcmePlumbing
  /\ auditor_results[1].input = QueryAcmeMidMO
  /\ auditor_results[1].match_status = StatusNoGbpMatch
  /\ auditor_results[2].match_status = TextError

(***************************************************************************)
(* C7: when the reference search matched with a website URL and            *)
(* scrape_website_info returns None, process_business goes on: the website *)
(* and structured-data fields are 'Website scraping failed', the row of    *)
(* the business is appended, and its status lists the missing website      *)
(* address, website phone, schema address and schema phone, without 'Fix   *)
(* Schema Formatting', and is neither 'Error' nor 'No GBP Match'.          *)
(***************************************************************************)
C7_ScrapeFailureKeepsRow ==
  (/\ pc = "sleep"
   /\ cur_gbp_data.status = "match"
   /\ ShouldScrape(cur_gbp_website_url)
   /\ "scrape" \in Range(steps)
   /\ cur_raw_website_data = NoneDict) =>
    LET row == auditor_results[Len(auditor_results)]
    IN /\ cur_website_data = WebsiteFailed
       /\ Len(auditor_results) + Len(results) = index
       /\ row.input = business_names[index]
       /\ \A field \in {row.website_name, row.website_address,
                        row.website_phone, row.schema_name,
                        row.schema_address, row.schema_phone} :
            field = <<"W","e","b","s","i","t","e"," ","s","c","r","a","p",
                      "i","n","g"," ","f","a","i","l","e","d">>
       /\ \A issue \in {IssueWebsiteAddress, IssueWebsitePhone,
                        IssueSchemaAddress, IssueSchemaPhone} :
            Contains(row.match_status, issue)
       /\ ~Contains(row.match_status, IssueSchemaFormatting)
       /\ ~Contains(row.match_status, TextError)
       /\ ~Contains(row.match_status, StatusNoGbpMatch)

C7_Witness ==
  /\ pc = "sleep"
  /\ cur_gbp_data.status = "match"
  /\ steps = <<"search", "listings", "scrape", "reconcile">>
  /\ cur_raw_website_data = NoneDict
  /\ cur_yext_data # YextInitial
  /\ auditor_results[Len(auditor_results)].website_name = WebsiteScrapingFailed

\* the steps of one business in the order of the code: after the search the
\* listings lookup, then the scrape or its skip, then the reconciliation
StepOrder ==
  <<{"search"}, {"listings"}, {"scrape", "skip_scrape"}, {"reconcile"}>>

TextNA ==
  <<"N","/","A">>

\* wsgi.py lines 251 and 255
StatusNeedsUpdates ==
  <<"N","e","e","d","s"," ","U","p","d","a","t","e","s">>

\* wsgi.py line 252
ActionUpdateWebsite ==
  <<"U","p","d","a","t","e"," ","W","e","b","s","i","t","e">>

\* wsgi.py line 256
ActionUpdateYext ==
  <<"U","p","d","a","t","e"," ","Y","e","x","t">>

MsgNoneHasNoGet ==
  <<"'","N","o","n","e","T","y","p","e","'"," ","o","b","j","e","c","t"," ","h","a","s"," ","n","o"," ","a","t","t","r","i","b","u","t","e"," ","'","g","e","t","'">>

MsgStrHasNoGet ==
  <<"'","s","t","r","'"," ","o","b","j","e","c","t"," ","h","a","s"," ","n","o"," ","a","t","t","r","i","b","u","t","e"," ","'","g","e","t","'">>

FooterAcme ==
  <<" ","1"," ","M","a","i","n"," ","S","t",","," ","C","o","l","u","m","b","i","a",","," ","M","O"," ","6","5","2","0","1"," ","\n">>

\* dict.get(key) of a field the model writes '' when the key is absent
GetOrNone(value) == IF value = Empty THEN None ELSE value

\* wsgi.py lines 124-156: the first place of the response, or None
WsgiSearchGooglePlace(response) ==
  IF response.raises THEN NoneDict
  ELSE IF response.hasPlaces /\ Len(response.places) > 0
    THEN LET place == response.places[1]
         IN [name |-> IF place.hasName THEN place.name ELSE None,
             address |-> GetOrNone(place.formattedAddress),
             website |-> GetOrNone(place.websiteUri),
             phone |-> GetOrNone(place.internationalPhoneNumber)]
  ELSE NoneDict

\* the page the browser of the endpoint returned: title and footer are None
\* without the element, phoneMatch is what the pattern of line 172 finds
WsgiPage(title, footer, phoneMatch, scripts) ==
  [raises |-> FALSE, title |-> title, footer |-> footer,
   phoneMatch |-> phoneMatch, scripts |-> scripts]

WsgiPageFails ==
  [raises |-> TRUE, title |-> None, footer |-> None, phoneMatch |-> None,
   scripts |-> << >>]

\* wsgi.py lines 199-204: the dict of a failed scrape
WsgiWebsiteError ==
  [name |-> TextError, address |-> TextError, phone |-> TextError,
   schema |-> NoneDict]

RECURSIVE WsgiSchema(_, _)
\* wsgi.py lines 182-191: the first script that is a dict of @type
\* 'LocalBusiness'; NoneDict for None, and a script whose parse raises
\* anything but a JSONDecodeError ends the scrape
WsgiSchema(scripts, i) ==
  IF i > Len(scripts) THEN [raised |-> FALSE, schema |-> NoneDict]
  ELSE IF scripts[i].kind = "error"
    THEN [raised |-> TRUE, schema |-> NoneDict]
  ELSE IF scripts[i].kind = "object"
            /\ scripts[i].data.type = TypeLocalBusiness
    THEN [raised |-> FALSE, schema |-> scripts[i].data]
  ELSE WsgiSchema(scripts, i + 1)

\* wsgi.py lines 158-204
WsgiSearchWebsite(page) ==
  IF page.raises \/ WsgiSchema(page.scripts, 1).raised THEN WsgiWebsiteError
  ELSE [name |-> IF page.title = None THEN TextNA ELSE page.title,
        address |-> IF page.footer = None THEN TextNA ELSE Strip(page.footer),
        phone |-> IF page.phoneMatch = None THEN TextNA ELSE page.phoneMatch,
        schema |-> WsgiSchema(page.scripts, 1).schema]

\* the answer of the entities request of the endpoint's listings lookup
WsgiYextResponse(raises, entities) ==
  [raises |-> raises, entities |-> entities]

\* entity.get('address', {}).get(key, '')
WsgiAddressPart(entity, part) ==
  IF entity.address = NoneDict THEN Empty
  ELSE IF entity.address[part] = None THEN Empty
  ELSE entity.address[part]

\* wsgi.py lines 207-226: the first entity of the answer, or None
WsgiSearchYext(response) ==
  IF response.raises \/ response.entities = << >> THEN NoneDict
  ELSE LET entity == response.entities[1]
       IN [name |-> entity.name,
           address |-> WsgiAddressPart(entity, "line1") \o CommaSpace
                         \o WsgiAddressPart(entity, "city") \o CommaSpace
                         \o WsgiAddressPart(entity, "region") \o CommaSpace
                         \o WsgiAddressPart(entity, "postalCode"),
           phone |-> entity.mainPhone]

\* website_data = {} of line 242
WsgiNoWebsite == [empty |-> TRUE]

\* one row of self.results of the endpoint's auditor; an absent key is None
WsgiRow(input, gbp, website, yext, schema, match_status, action_needed) ==
  [input |-> input,
   gbp_name |-> gbp.name, gbp_address |-> gbp.address,
   gbp_website |-> gbp.website, gbp_phone |-> gbp.phone,
   website_name |-> website.name, website_address |-> website.address,
   website_phone |-> website.phone,
   yext_name |-> yext.name, yext_address |-> yext.address,
   yext_phone |-> yext.phone,
   schema_name |-> schema.name, schema_address |-> schema.address,
   schema_phone |-> schema.phone,
   match_status |-> match_status, action_needed |-> action_needed]

\* the values of keys a dict does not have
WsgiAbsent ==
  [name |-> None, address |-> None, website |-> None, phone |-> None]

\* wsgi.py lines 234-240
WsgiNoGbpRow(business_name) ==
  WsgiRow(business_name, WsgiAbsent, WsgiAbsent, WsgiAbsent, WsgiAbsent,
          StatusNoGbpMatch, ActionManualReview)

\* wsgi.py lines 246-256: match_status and action_needed
WsgiStatus(website_data, yext_data) ==
  IF website_data = WsgiNoWebsite \/ yext_data = NoneDict
    THEN StatusNeedsUpdates
    ELSE StatusAllGood

WsgiActions(website_data, yext_data) ==
  LET action_needed ==
        (IF website_data = WsgiNoWebsite THEN <<ActionUpdateWebsite>>
         ELSE << >>)
          \o (IF yext_data = NoneDict THEN <<ActionUpdateYext>> ELSE << >>)
  IN IF action_needed = << >> THEN TextNone
     ELSE Join(action_needed, CommaSpace)

\* wsgi.py lines 271-273: the three schema cells of the row
WsgiSchemaCells(schema) ==
  [name |-> schema.name,
   address |-> IF schema.address.kind = "dict"
                 THEN schema.address.streetAddress ELSE None,
   phone |-> schema.telephone]

\* what process_business of the endpoint does with the three records: it
\* appends a row, or the expressions of lines 268-273 raise an
\* AttributeError and nothing is appended
WsgiOutcome(business_name, gbp_data, website_data, yext_data) ==
  IF gbp_data = NoneDict
    THEN [raised |-> FALSE, message |-> None,
          row |-> WsgiNoGbpRow(business_name)]
  ELSE IF yext_data = NoneDict
    THEN [raised |-> TRUE, message |-> MsgNoneHasNoGet, row |-> NoneDict]
  ELSE IF website_data # WsgiNoWebsite /\ website_data.schema = NoneDict
    THEN [raised |-> TRUE, message |-> MsgNoneHasNoGet, row |-> NoneDict]
  ELSE IF website_data # WsgiNoWebsite
            /\ website_data.schema.address.kind \in {"str", "other"}
    THEN [raised |-> TRUE, message |-> MsgStrHasNoGet, row |-> NoneDict]
  ELSE [raised |-> FALSE, message |-> None,
        row |-> WsgiRow(business_name, gbp_data,
                        IF website_data = WsgiNoWebsite THEN WsgiAbsent
                          ELSE website_data,
                        yext_data,
                        IF website_data = WsgiNoWebsite THEN WsgiAbsent
                          ELSE WsgiSchemaCells(website_data.schema),
                        WsgiStatus(website_data, yext_data),
                        WsgiActions(website_data, yext_data))]

\* what the Places request of the endpoint does for one business
WsgiResponses ==
  {ResponseRaises(MsgTimeout), ResponsePlaces(<< >>),
   ResponsePlaces(<<PlaceAcmeDayton>>), ResponsePlaces(<<PlaceZedToledo>>)}

WsgiSchemaAcme ==
  LdJson(TypeLocalBusiness, TRUE, NameAcme,
         LdAddressParts(Line1Main, CityColumbia, StateMO, ZipColumbia),
         PhoneDotted, None, None)

\* what the browser of the endpoint does for one business
WsgiPages ==
  {WsgiPageFails,
   WsgiPage(TitleAcme, FooterAcme, PhoneColumbia,
            <<ScriptInvalid, ScriptObject(WsgiSchemaAcme)>>),
   WsgiPage(TitleAcme, None, None, << >>)}

\* what the listings service of the endpoint does for one business
WsgiYextResponses ==
  {WsgiYextResponse(TRUE, << >>), WsgiYextResponse(FALSE, << >>),
   WsgiYextResponse(FALSE, <<EntityAcme>>)}

WsgiInit ==
  /\ SearchIdle
  /\ StatusIdle
  /\ BatchIdle
  /\ CallIdle
  /\ TaskIdle
  /\ ApiIdle
  /\ wsgi_names \in BatchInputs
  /\ wsgi_index = 1
  /\ wsgi_pc = "running"
  /\ wsgi_gbp = NoneDict
  /\ wsgi_website = NoneDict
  /\ wsgi_yext = NoneDict
  /\ wsgi_results = << >>
  /\ wsgi_error = None

\* wsgi.py lines 228-276 and 281-283: process_business of the next name,
\* then the pause; an exception leaves run_audit and the endpoint answers
\* 500 (lines 347-358)
WsgiProcessBusiness ==
  /\ wsgi_pc = "running"
  /\ wsgi_index <= Len(wsgi_names)
  /\ \E response \in WsgiResponses, page \in WsgiPages,
        listing \in WsgiYextResponses :
       LET gbp_data == WsgiSearchGooglePlace(response)
           website_data ==
             IF gbp_data = NoneDict THEN NoneDict
             ELSE IF Truthy(gbp_data.website) THEN WsgiSearchWebsite(page)
             ELSE WsgiNoWebsite
           yext_data ==
             IF gbp_data = NoneDict THEN NoneDict
             ELSE WsgiSearchYext(listing)
           outcome == WsgiOutcome(wsgi_names[wsgi_index], gbp_data,
                                  website_data, yext_data)
       IN /\ wsgi_gbp' = gbp_data
          /\ wsgi_website' = website_data
          /\ wsgi_yext' = yext_data
          /\ IF outcome.raised
               THEN /\ wsgi_pc' = "failed"
                    /\ wsgi_error' = outcome.message
                    /\ UNCHANGED <<wsgi_results, wsgi_index>>
               ELSE /\ wsgi_results' = Append(wsgi_results, outcome.row)
                    /\ wsgi_index' = wsgi_index + 1
                    /\ UNCHANGED <<wsgi_pc, wsgi_error>>
  /\ UNCHANGED wsgi_names
  /\ UNCHANGED <<searchVars, statusVars, batchVars, callVars>>
  /\ UNCHANGED <<taskVars, apiVars>>

\* wsgi.py lines 284 and 311-345: run_audit returns; the endpoint answers
\* 200 when there are results, 500 when there are none
WsgiReturn ==
  /\ wsgi_pc = "running"
  /\ wsgi_index > Len(wsgi_names)
  /\ wsgi_pc' = IF wsgi_results # << >> THEN "success" ELSE "no_results"
  /\ UNCHANGED <<wsgi_names, wsgi_index, wsgi_gbp, wsgi_website, wsgi_yext,
                 wsgi_results, wsgi_error>>
  /\ UNCHANGED <<searchVars, statusVars, batchVars, callVars>>
  /\ UNCHANGED <<taskVars, apiVars>>

WsgiNext == WsgiProcessBusiness \/ WsgiReturn

SpecWsgi == WsgiInit /\ [][WsgiNext]_vars

\* the last process_business of the endpoint had a reference match and a
\* missing source: no listings record, or a scraped page without
\* structured data
WsgiSourceMissing ==
  /\ wsgi_gbp # NoneDict
  /\ \/ wsgi_yext = NoneDict
     \/ wsgi_website # WsgiNoWebsite /\ wsgi_website.schema = NoneDict

(***************************************************************************)
(* C8: in the endpoint's auditor, when the reference search succeeded and  *)
(* the listings lookup returns nothing, or the scraped page has no         *)
(* structured data, process_business still appends one row of status       *)
(* 'Needs Updates' for the business and run_audit goes on: the audit does  *)
(* not fail.  The code does not keep this.                                 *)
(***************************************************************************)
C8_MissingSourceKeepsRow ==
  WsgiSourceMissing =>
    /\ wsgi_pc # "failed"
    /\ Len(wsgi_results) = wsgi_index - 1
    /\ wsgi_results[Len(wsgi_results)].input = wsgi_names[wsgi_index - 1]
    /\ wsgi_results[Len(wsgi_results)].match_status = StatusNeedsUpdates

(***************************************************************************)
(* SpecCalls: one call of normalize_phone_number, of normalize_address or  *)
(* of calculate_similarity_score, on any argument of the model.            *)
(***************************************************************************)
NameSmithDental ==
  <<"S","m","i","t","h"," ","D","e","n","t","a","l">>

NameTheCo ==
  <<"T","h","e"," ","C","o">>

NameBlank ==
  <<" ">>

NameAmpersand ==
  <<"&">>

Name360Troy ==
  <<"3","6","0"," ","P","a","i","n","t","i","n","g"," ","o","f"," ","T","r","o","y">>

NameHomeHelpersOnly ==
  <<"H","o","m","e"," ","H","e","l","p","e","r","s">>

NameAcmeHeating ==
  <<"A","c","m","e"," ","P","l","u","m","b","i","n","g"," ","&"," ","H","e","a","t","i","n","g">>

DigitsColumbia ==
  <<"5","7","3","5","5","5","0","1","0","1">>

DigitsDayton ==
  <<"9","3","7","5","5","5","0","1","0","2">>

DigitsWithCountry ==
  <<"1","5","7","3","5","5","5","0","1","0","1">>

DigitsLocal ==
  <<"5","5","5","0","1","0","1">>

DigitsNine ==
  <<"5","7","3","5","5","5","0","1","0">>

AddrBlank ==
  <<" "," ">>

AddrCommaOnly ==
  <<",">>

AddrCommaSpace ==
  <<","," ",",">>

AddrTabbed ==
  <<"1"," ","M","a","i","n"," ","S","t","	","	","C","o","l","u","m","b","i","a">>

\* digit strings of ten digits, of other lengths, and none
PhoneDigitStrings ==
  {DigitsColumbia, DigitsDayton, DigitsWithCountry, DigitsLocal, DigitsNine,
   Empty}

\* how a phone is written: what stands before the first three digits, after
\* them, and after the next three
PhoneStyles ==
  {<<Empty, Empty, Empty>>,
   <<Empty, <<".">>, <<".">>>>,
   <<Empty, <<"-">>, <<"-">>>>,
   <<<<"(">>, <<")", " ">>, <<"-">>>>,
   <<<<"+">>, Empty, Empty>>,
   <<<<"+", "1", " ">>, <<" ">>, <<" ">>>>,
   <<<<"t", "e", "l", ":", " ">>, <<"-">>, <<" ", "x">>>>}

\* the digits lo..hi of d, as far as d has them
DigitGroup(d, lo, hi) == Slice(d, lo, IF hi > Len(d) THEN Len(d) ELSE hi)

\* the digits d written in a style
StyledPhone(d, style) ==
  style[1] \o DigitGroup(d, 1, 3) \o style[2] \o DigitGroup(d, 4, 6)
    \o style[3] \o DigitGroup(d, 7, Len(d))

PhoneInputs ==
  {None} \cup {StyledPhone(d, style) : d \in PhoneDigitStrings,
                                       style \in PhoneStyles}

AddressInputs ==
  {None, Empty, AddrBlank, AddrCommaOnly, AddrCommaSpace, AddrTabbed,
   AddrColumbiaMO, AddrColumbiaMessy, AddrColumbiaCommas, AddrColumbiaLower,
   AddrColumbiaPlain, AddrElm, NotAvailable, WebsiteScrapingFailed}

NameInputs ==
  {Empty, NameBlank, NameTheCo, NameSmithDental, NameAcmePlumbing,
   NameAcmeHeating, QueryAcmeMidMO, Name360Troy, NameHomeHelpersOnly,
   NameHomeHelpersColumbus, NameComfortKeepers, QueryAcmePlumbing,
   QueryHomeHelpers, NameZedRoofing, NameAmpersand}

NameAcmePlus ==
  <<"A","c","m","e"," ","P","l","u","m","b","i","n","g"," ","+"," ","H","e","a","t","i","n","g">>

NameAcmeSwapped ==
  <<"A","c","m","e"," ","H","e","a","t","i","n","g"," ","&"," ","P","l","u","m","b","i","n","g">>

NameComfortLoose ==
  <<" ","c","o","m","f","o","r","t"," ","k","e","e","p","e","r","s"," ","h","o","m","e"," ","C","A","R","E"," ">>

UrlComfortSlash ==
  <<"h","t","t","p","s",":","/","/","w","w","w",".","c","o","m","f","o","r","t","k","e","e","p","e","r","s",".","c","o","m","/","c","o","l","u","m","b","i","a","/">>

PhoneDaytonPlain ==
  <<"9","3","7","5","5","5","0","1","0","2">>

EntityAcmePlus == Entity(NameAcmePlus, NoneDict, None, None)

EntityAcmeSwapped ==
  Entity(NameAcmeSwapped, EntityAddress(Line1Elm, None, StateMO, None),
         PhoneDaytonPlain, Empty)

EntityComfortColumbia ==
  Entity(NameComfortKeepers,
         EntityAddress(Line1Main, CityColumbia, StateMO, ZipColumbia),
         PhoneColumbiaPlain, UrlComfortSlash)

EntityComfortDayton ==
  Entity(NameComfortLoose, NoneDict, PhoneDaytonPlain, UrlComfortDayton)

EntityZed ==
  Entity(NameZedRoofing, EntityAddress(Line1Elm, None, None, None), None,
         UrlComfortColumbia)

EntityNullName == Entity(JsonNull, NoneDict, None, UrlComfortColumbia)

\* the most entities on a page of the model
MaxEntities == 2

YextEntities ==
  {EntityAcme, EntityAcmePlus, EntityAcmeSwapped, EntityComfortColumbia,
   EntityComfortDayton, EntityZed, EntityNullName}

\* the entities of the pages with several entities
YextPageEntities ==
  {EntityAcme, EntityComfortColumbia, EntityZed, EntityNullName}

\* the pages that answer with entities
YextEntityPages ==
  {EntitiesPage(es) : es \in SeqsUpTo(YextPageEntities, MaxEntities)}

\* the pages of one entity, and the pages that end the paging of an account
YextShortPages ==
  {EntitiesPage(<<e>>) : e \in YextEntities}
    \cup {PageWithoutEntities, PageHttpError, PageRaises}

\* the second page of an account with two pages
YextSecondPages ==
  {EntitiesPage(<<EntityAcme>>), EntitiesPage(<<EntityAcmePlus>>),
   EntitiesPage(<<EntityComfortColumbia>>), EntitiesPage(<<EntityNullName>>),
   PageRaises}

\* an account is the sequence of the pages it serves
YextAccounts ==
  {<<page>> : page \in YextEntityPages \cup YextShortPages}
    \cup {<<p1, p2>> : p1 \in YextShortPages, p2 \in YextSecondPages}

\* the accounts of the services with several accounts
YextSmallAccounts ==
  {<<page>> : page \in YextShortPages}
    \cup {<<EntitiesPage(<<e1>>), EntitiesPage(<<e2>>)>> :
             e1 \in {EntityAcmeSwapped, EntityZed},
             e2 \in {EntityAcme, EntityZed}}

\* the second account of a service with two accounts
YextLastAccounts ==
  {<<EntitiesPage(<<EntityAcme>>)>>, <<EntitiesPage(<<EntityAcmePlus>>)>>,
   <<EntitiesPage(<<EntityComfortColumbia>>)>>, <<PageRaises>>}

YextServices ==
  {YextService(TRUE, 200, << >>),
   YextService(FALSE, 500, <<<<EntitiesPage(<<EntityAcme>>)>>>>),
   YextService(FALSE, 200, << >>)}
    \cup {YextService(FALSE, 200, <<account>>) : account \in YextAccounts}
    \cup {YextService(FALSE, 200, <<a1, a2>>) :
             a1 \in YextSmallAccounts, a2 \in YextLastAccounts}

YextNames == {NameAcmeHeating, QueryAcmeMidMO}

\* gbp_website_url: absent, or the website of the place found
YextUrls == {None, UrlComfortColumbia}

CallsInit == SearchIdle /\ StatusIdle /\ BatchIdle /\ WsgiIdle /\ CallIdle
  /\ TaskIdle
  /\ ApiIdle

CallNormalizePhoneNumber ==
  /\ callName = "none"
  /\ \E phone \in PhoneInputs :
       /\ callArgs' = <<phone>>
       /\ callResult' = normalize_phone_number(phone)
       /\ callRequests' = << >>
  /\ callName' = "normalize_phone_number"
  /\ UNCHANGED <<searchVars, statusVars, batchVars, wsgiVars>>
  /\ UNCHANGED <<taskVars, apiVars>>

CallNormalizeAddress ==
  /\ callName = "none"
  /\ \E address \in AddressInputs :
       /\ callArgs' = <<address>>
       /\ callResult' = normalize_address(address)
       /\ callRequests' = << >>
  /\ callName' = "normalize_address"
  /\ UNCHANGED <<searchVars, statusVars, batchVars, wsgiVars>>
  /\ UNCHANGED <<taskVars, apiVars>>

CallCalculateSimilarityScore ==
  /\ callName = "none"
  /\ \E name1 \in NameInputs, name2 \in NameInputs :
       /\ callArgs' = <<name1, name2>>
       /\ callResult' = calculate_similarity_score(name1, name2)
       /\ callRequests' = << >>
  /\ callName' = "calculate_similarity_score"
  /\ UNCHANGED <<searchVars, statusVars, batchVars, wsgiVars>>
  /\ UNCHANGED <<taskVars, apiVars>>

CallSearchYext ==
  /\ callName = "none"
  /\ \E business_name \in YextNames, gbp_website_url \in YextUrls,
        service \in YextServices :
       /\ callArgs' = <<business_name, gbp_website_url, service>>
       /\ callResult' = search_yext(business_name, gbp_website_url, service)
       /\ callRequests' =
            search_yext_requests(business_name, gbp_website_url, service)
  /\ callName' = "search_yext"
  /\ UNCHANGED <<searchVars, statusVars, batchVars, wsgiVars>>
  /\ UNCHANGED <<taskVars, apiVars>>

CallsNext ==
  \/ CallNormalizePhoneNumber
  \/ CallNormalizeAddress
  \/ CallCalculateSimilarityScore

SpecCalls == CallsInit /\ [][CallsNext]_vars

YextNext == CallSearchYext

\* one call of search_yext, on any listings service of the model
SpecYext == CallsInit /\ [][YextNext]_vars

\* the single call was of normalize_phone_number, on a text
PhoneCalled ==
  callName = "normalize_phone_number" /\ callArgs[1] # None

(***************************************************************************)
(* C17: normalize_phone_number maps every input that contains exactly 10   *)
(* digit characters to '+1' followed by those digits, whatever other       *)
(* characters surround them, so any two inputs with the same 10 digits     *)
(* normalize to the same value.                                            *)
(***************************************************************************)
C17_TenDigitsGetCountryCode ==
  (PhoneCalled /\ Len(DigitsOf(callArgs[1])) = 10) =>
    /\ callResult = <<"+", "1">> \o DigitsOf(callArgs[1])
    /\ \A phone \in PhoneInputs \ {None} :
         DigitsOf(phone) = DigitsOf(callArgs[1])
           => normalize_phone_number(phone) = callResult

\* ten digits between parentheses, a space and a dash
C17_Witness ==
  /\ PhoneCalled
  /\ callArgs[1] = <<"(","5","7","3",")"," ","5","5","5","-","0","1","0","1">>
  /\ callResult = <<"+","1","5","7","3","5","5","5","0","1","0","1">>
  /\ Cardinality({phone \in PhoneInputs \ {None} :
                    DigitsOf(phone) = DigitsOf(callArgs[1])}) >= 5

(***************************************************************************)
(* C18: for every input whose digit count is not 10,                       *)
(* normalize_phone_number returns the digit-stripped string (digits only,  *)
(* all other characters removed), so two inputs with the same digit        *)
(* sequence but different punctuation normalize to the same value.         *)
(***************************************************************************)
C18_OtherCountsDigitStripped ==
  (PhoneCalled /\ Len(DigitsOf(callArgs[1])) # 10) =>
    /\ callResult = DigitsOf(callArgs[1])
    /\ \A phone \in PhoneInputs \ {None} :
         DigitsOf(phone) = DigitsOf(callArgs[1])
           => normalize_phone_number(phone) = callResult

\* the single call was of normalize_address
AddressCalled == callName = "normalize_address"

(***************************************************************************)
(* C19: normalize_address returns, for absent input, a missing sentinel    *)
(* that is different from the value it returns for an empty-string input   *)
(* and for any input that normalizes to empty, so that a caller can tell   *)
(* 'no data' from 'empty data'.                                            *)
(***************************************************************************)
C19_AbsentDiffersFromEmpty ==
  (/\ AddressCalled
   /\ callArgs[1] # None
   /\ callArgs[1] = Empty \/ callResult = Empty)
    => callResult # normalize_address(None)

\* the single call was calculate_similarity_score(a, a) on a non-empty name
\* with a word of more than 2 characters after cleaning
SameNameScored ==
  /\ callName = "calculate_similarity_score"
  /\ callArgs[1] = callArgs[2]
  /\ callArgs[1] # Empty
  /\ LongWords(CleanName(NameLower(callArgs[1]), NameLower(callArgs[1]),
                         NameLower(callArgs[1]))) # {}

\* C20 as first stated: calculate_similarity_score(a, a) equals 1.0 for
\* every non-empty name a that has at least one word longer than 2
\* characters after cleaning.
C20_Original ==
  SameNameScored => callResult = Frac(1, 1)

(***************************************************************************)
(* C20: calculate_similarity_score(a, a) equals 0.9, the fixed score of    *)
(* the containment check, for every non-empty name a that has at least     *)
(* one word longer than 2 characters after cleaning.                       *)
(***************************************************************************)
C20_SameNameScoresContainment ==
  SameNameScored => callResult = Frac(9, 10)

\* a generic name scored against itself, past the cleaning of stop words
C20_Witness ==
  /\ SameNameScored
  /\ callArgs[1] = NameSmithDental
  /\ ~Is360(NameLower(callArgs[1]), NameLower(callArgs[1]))
  /\ ~IsHomeHelpers(NameLower(callArgs[1]), NameLower(callArgs[1]))
  /\ callResult = <<9, 10>>

\* the single call was calculate_similarity_score on two non-empty names
ScoreCalled ==
  /\ callName = "calculate_similarity_score"
  /\ callArgs[1] # Empty
  /\ callArgs[2] # Empty

\* the call took the generic path: no '360 painting' in either name and
\* 'home helpers' not in both
GenericPath ==
  /\ ScoreCalled
  /\ ~Is360(NameLower(callArgs[1]), NameLower(callArgs[2]))
  /\ ~IsHomeHelpers(NameLower(callArgs[1]), NameLower(callArgs[2]))

\* the two names, lowercased, without stop words, whitespace collapsed
GenericClean1 == CleanGeneric(NameLower(callArgs[1]))
GenericClean2 == CleanGeneric(NameLower(callArgs[2]))

(***************************************************************************)
(* C21: on the generic path of calculate_similarity_score, whenever the    *)
(* cleaned form of one name (lowercased, stop words removed, whitespace    *)
(* collapsed) is a substring of the cleaned form of the other, the score   *)
(* is exactly 0.9; in particular two names that differ only by stop words  *)
(* such as 'Inc' score at least 0.9.                                       *)
(***************************************************************************)
C21_ContainmentScores ==
  (/\ GenericPath
   /\ \/ Contains(GenericClean2, GenericClean1)
      \/ Contains(GenericClean1, GenericClean2))
    => callResult = Frac(9, 10)

\* a name scored against the shorter name whose cleaned form it contains,
\* the two cleaned forms being different
C21_Witness ==
  /\ GenericPath
  /\ callArgs = <<NameAcmeHeating, QueryAcmePlumbing>>
  /\ GenericClean1 # GenericClean2
  /\ Contains(GenericClean1, GenericClean2)
  /\ ~Contains(GenericClean2, GenericClean1)
  /\ callResult = <<9, 10>>

\* the two names without the franchise terms, whitespace collapsed
FranchiseClean1 == CleanFranchise(NameLower(callArgs[1]))
FranchiseClean2 == CleanFranchise(NameLower(callArgs[2]))

\* both names contain 'home helpers' and their remaining words have no word
\* in common
TwoLocations ==
  /\ ScoreCalled
  /\ IsHomeHelpers(NameLower(callArgs[1]), NameLower(callArgs[2]))
  /\ Range(Split(FranchiseClean1)) \cap Range(Split(FranchiseClean2)) = {}

\* C22 as first stated: for any two names that both contain 'home helpers'
\* and whose words other than franchise boilerplate have no word in common,
\* calculate_similarity_score returns a score below the threshold 0.7.
C22_Original ==
  TwoLocations => FracLt(callResult, Frac(7, 10))

(***************************************************************************)
(* C22: for any two names that both contain 'home helpers', neither of     *)
(* them '360 painting', whose words other than franchise boilerplate have  *)
(* no word in common, and where neither remainder is a substring of the    *)
(* other, calculate_similarity_score returns at most 0.4, below the match  *)
(* threshold 0.7.                                                          *)
(***************************************************************************)
C22_LocationsBelowThreshold ==
  (/\ TwoLocations
   /\ ~Is360(NameLower(callArgs[1]), NameLower(callArgs[2]))
   /\ ~Contains(FranchiseClean2, FranchiseClean1)
   /\ ~Contains(FranchiseClean1, FranchiseClean2))
    => /\ FracLe(callResult, Frac(4, 10))
       /\ FracLt(callResult, Frac(7, 10))

\* two locations of the brand, scored on the likeness of 'dayton' and
\* 'columbus' alone
C22_Witness ==
  /\ TwoLocations
  /\ callArgs = <<QueryHomeHelpers, NameHomeHelpersColumbus>>
  /\ FranchiseClean1 = <<"d","a","y","t","o","n">>
  /\ FranchiseClean2 = <<"c","o","l","u","m","b","u","s">>
  /\ FracLt(Frac(0, 1), callResult)
  /\ FracLt(callResult, Frac(4, 10))

\* the single call was of search_yext
YextCalled == callName = "search_yext"

\* the page a request <<a, p>> of the call asked for
RequestedPage(r) == callArgs[3].accounts[r[1]][r[2]]

\* the positions <<a, p, i>> of the entities of a requested page
PagePositions(r) ==
  IF r = AccountsRequest THEN << >>
  ELSE IF \/ RequestedPage(r).raises
          \/ RequestedPage(r).status # 200
          \/ ~RequestedPage(r).hasEntities
    THEN << >>
  ELSE [i \in 1..Len(RequestedPage(r).entities) |-> <<r[1], r[2], i>>]

RECURSIVE PositionsFrom(_)
\* the positions of the entities of the pages asked for from request k on
PositionsFrom(k) ==
  IF k > Len(callRequests) THEN << >>
  ELSE PagePositions(callRequests[k]) \o PositionsFrom(k + 1)

\* the entities of the pages the call asked for, in the order of the scan
ScanPositions == PositionsFrom(1)

EntityAt(pos) == callArgs[3].accounts[pos[1]][pos[2]].entities[pos[3]]

\* a request of the call raised, or an entity of a page it got has a null name
ScanRaised ==
  \/ callArgs[3].raises
  \/ \E k \in 2..Len(callRequests) : RequestedPage(callRequests[k]).raises
  \/ \E k \in 1..Len(ScanPositions) : EntityAt(ScanPositions[k]).name = JsonNull

\* the call got the accounts and scanned every page it asked for to its end
ScanCompleted ==
  YextCalled /\ callArgs[3].status = 200 /\ ~ScanRaised

NameScoreAt(pos) ==
  calculate_similarity_score(callArgs[1], EntityName(EntityAt(pos)))

\* the entity reaches the threshold by its name
NameGoodAt(pos) == FracLe(Frac(7, 10), NameScoreAt(pos))

\* a reference URL was supplied and the entity has a URL whose path has a
\* ratio of 0.8 or more with the path of the reference
UrlAlikeAt(pos) ==
  /\ callArgs[2] # None
  /\ callArgs[2] # Empty
  /\ EntityAt(pos).websiteUrl # None
  /\ EntityAt(pos).websiteUrl # Empty
  /\ FracLe(Frac(8, 10),
            SequenceRatio(UrlPath(callArgs[2]),
                          UrlPath(EntityAt(pos).websiteUrl)))

\* the name of the entity, lower-cased and stripped, is the one brand name
\* the URL comparison is made for
ComfortNamedAt(pos) ==
  Strip(StrLower(EntityName(EntityAt(pos))))
    = <<"c","o","m","f","o","r","t"," ","k","e","e","p","e","r","s"," ",
        "h","o","m","e"," ","c","a","r","e">>

\* the scanned positions that satisfy a test, in the order of the scan
GoodByName == SelectSeq(ScanPositions, NameGoodAt)
AlikeByUrl == SelectSeq(ScanPositions, UrlAlikeAt)
ComfortByUrl ==
  SelectSeq(ScanPositions, LAMBDA pos : UrlAlikeAt(pos) /\ ComfortNamedAt(pos))

QualifiedAt(pos) ==
  NameGoodAt(pos) \/ (UrlAlikeAt(pos) /\ ComfortNamedAt(pos))

(***************************************************************************)
(* C24: search_yext returns a record only if some scanned entity qualified *)
(* (name score >= 0.7, or the URL-path override), and the record is that   *)
(* of a qualifying entity; it returns None when no entity in any account   *)
(* qualifies, when the accounts request is not HTTP 200, and when any      *)
(* exception occurs.  It never raises: every call ends with a record or    *)
(* with None.                                                              *)
(***************************************************************************)
C24_RecordOnlyIfQualified ==
  YextCalled =>
    /\ callResult = NoneDict \/ DOMAIN callResult = DOMAIN YextRecord(EntityAcme)
    /\ callArgs[3].raises => callResult = NoneDict /\ Len(callRequests) = 1
    /\ callArgs[3].status # 200 => callResult = NoneDict /\ Len(callRequests) = 1
    /\ (callArgs[3].status = 200 /\ ScanRaised) => callResult = NoneDict
    /\ ScanCompleted =>
         IF \E k \in 1..Len(ScanPositions) : QualifiedAt(ScanPositions[k])
           THEN \E k \in 1..Len(ScanPositions) :
                  /\ QualifiedAt(ScanPositions[k])
                  /\ callResult = YextRecord(EntityAt(ScanPositions[k]))
           ELSE callResult = NoneDict

\* an entity of the page qualified by its name and the entity after it made
\* the scan raise: None is returned
C24_Witness ==
  /\ YextCalled
  /\ callArgs[3].status = 200
  /\ callRequests = <<AccountsRequest, <<1, 1>>>>
  /\ RequestedPage(<<1, 1>>).entities = <<EntityAcme, EntityNullName>>
  /\ NameGoodAt(<<1, 1, 1>>)
  /\ ScanRaised
  /\ callResult = NoneDict

\* the positions of the entities of one requested page that qualify
QualifiedOn(r) == SelectSeq(PagePositions(r), QualifiedAt)

\* the score an entity of the page is taken with: that of its name when it
\* reaches the threshold, 0.85 for the URL when nothing qualified before it
TakenScore(r, pos) ==
  IF NameGoodAt(pos) THEN NameScoreAt(pos)
  ELSE IF QualifiedOn(r) # << >> /\ QualifiedOn(r)[1] = pos THEN Frac(85, 100)
  ELSE Frac(0, 1)

\* the highest-scoring qualifying entity of a page, the first one of them
BestOn(r) ==
  CHOOSE pos \in Range(QualifiedOn(r)) :
    /\ FracLe(Frac(7, 10), TakenScore(r, pos))
    /\ \A other \in Range(PagePositions(r)) :
         /\ FracLe(TakenScore(r, other), TakenScore(r, pos))
         /\ other[3] < pos[3] => FracLt(TakenScore(r, other), TakenScore(r, pos))

\* the last request the call made
LastRequest == callRequests[Len(callRequests)]

\* an entity of a page the call never asked for scores higher by its name
\* than the record returned
BetterLeftUnseen ==
  \E a \in 1..Len(callArgs[3].accounts) :
    \E p \in 1..Len(callArgs[3].accounts[a]) :
      /\ \A k \in 1..Len(callRequests) : callRequests[k] # <<a, p>>
      /\ \E i \in 1..Len(callArgs[3].accounts[a][p].entities) :
           /\ callArgs[3].accounts[a][p].entities[i].name # JsonNull
           /\ FracLt(TakenScore(LastRequest, BestOn(LastRequest)),
                     NameScoreAt(<<a, p, i>>))

(***************************************************************************)
(* C27: search_yext stops paging early: after the entities of a page are   *)
(* scanned, if the best score so far is >= 0.7 no further page of that     *)
(* account and no further account is requested, and the record returned    *)
(* is the highest-scoring qualifying entity among the entities scanned up  *)
(* to the end of that page (first one wins on equal score), not            *)
(* necessarily the best over all accounts.                                 *)
(***************************************************************************)
C27_StopsAfterQualifyingPage ==
  ScanCompleted =>
    /\ \A k \in 1..(Len(callRequests) - 1) :
         QualifiedOn(callRequests[k]) = << >>
    /\ QualifiedOn(LastRequest) # << >>
         => callResult = YextRecord(EntityAt(BestOn(LastRequest)))

\* the first account's page held a qualifying entity, the second account
\* was never asked for, and its entity scores higher
C27_Witness ==
  /\ ScanCompleted
  /\ Len(callArgs[3].accounts) = 2
  /\ callRequests = <<AccountsRequest, <<1, 1>>, <<1, 2>>>>
  /\ QualifiedOn(<<1, 1>>) = << >>
  /\ callResult = YextRecord(EntityAcme)
  /\ BetterLeftUnseen

\* the cleaned forms of the two names in the call made
CallClean1 ==
  CleanName(NameLower(callArgs[1]), NameLower(callArgs[1]),
            NameLower(callArgs[2]))
CallClean2 ==
  CleanName(NameLower(callArgs[2]), NameLower(callArgs[1]),
            NameLower(callArgs[2]))

\* the cleaned form the first name has when it is scored against itself
OwnClean1 ==
  CleanName(NameLower(callArgs[1]), NameLower(callArgs[1]),
            NameLower(callArgs[1]))

\* C28 as first stated: a non-empty name whose cleaned form is the empty
\* string (a name made only of stop words, a 'home helpers' name with no
\* location word) scores exactly 0.9 against every non-empty name.
C28_Original ==
  (ScoreCalled /\ OwnClean1 = Empty) => callResult = Frac(9, 10)

(***************************************************************************)
(* C28: in calculate_similarity_score, a non-empty name whose cleaned form *)
(* in the call is the empty string scores exactly 0.9 against every        *)
(* non-empty name, the cleaning being the one the pair of names selects:   *)
(* the empty string is contained in every cleaned name and the containment *)
(* check runs before the word-overlap step.                                *)
(***************************************************************************)
C28_EmptyCleanScoresContainment ==
  (ScoreCalled /\ (CallClean1 = Empty \/ CallClean2 = Empty))
    => callResult = Frac(9, 10)

\* a name of stop words only against a name that shares nothing with it
C28_Witness ==
  /\ ScoreCalled
  /\ callArgs = <<NameTheCo, NameSmithDental>>
  /\ CallClean1 = Empty
  /\ CallClean2 = <<"s","m","i","t","h"," ","d","e","n","t","a","l">>
  /\ callResult = <<9, 10>>

(***************************************************************************)
(* SpecScrape: one call of scrape_website_info on a page of the model,     *)
(* then the reconciliation process_business makes of what it returned.     *)
(***************************************************************************)
\* the objects of the ld+json script of a page
ScrapeRecords ==
  {LdJson(type, hasContext, NameAcme, address, telephone, telePhone, None) :
     type \in {TypeLocalBusiness, TypeOrganization, None},
     hasContext \in BOOLEAN,
     address \in {LdAddressAbsent, LdAddressText(AddrColumbiaMO),
                  LdAddressText(Empty),
                  LdAddressParts(Line1Main, CityColumbia, StateMO,
                                 ZipColumbia)},
     telephone \in {None, PhoneColumbia},
     telePhone \in {None, Empty, PhoneOther}}

\* the ld+json scripts of a page: none, one that does not parse, one object
ScrapeScripts ==
  {<< >>, <<ScriptInvalid>>}
    \cup {<<ScriptObject(data)>> : data \in ScrapeRecords}

\* what the address and phone patterns find in the text of the page
ScrapeTexts ==
  {<<None, None>>, <<TextAddressMatch, PhoneDotted>>}

ScrapePages ==
  {PageLoadFails}
    \cup {WebPage(TitleAcmePadded, scripts, text[1], None, text[2]) :
            scripts \in ScrapeScripts, text \in ScrapeTexts}

\* the reference the scraped data is reconciled with: of the same address
\* and phone as the records of the pages, or of others
ScrapeGbps ==
  {GbpMatched(AddrColumbiaMO, PhoneColumbia), GbpMatched(AddrElm, PhoneShort)}

ScrapeInit == SearchIdle /\ StatusIdle /\ BatchIdle /\ WsgiIdle /\ CallIdle
  /\ TaskIdle
  /\ ApiIdle

CallScrapeWebsiteInfo ==
  /\ callName = "none"
  /\ \E page \in ScrapePages :
       /\ callArgs' = <<UrlAcmeColumbia, page>>
       /\ callResult' = scrape_website_info(UrlAcmeColumbia, page)
  /\ callRequests' = << >>
  /\ callName' = "scrape_website_info"
  /\ UNCHANGED <<searchVars, statusVars, batchVars, wsgiVars>>
  /\ UNCHANGED <<taskVars, apiVars>>

\* nap.py lines 805-857: website_data built of what the scrape returned and
\* handed to determine_match_status
ReconcileScraped ==
  /\ callName = "scrape_website_info"
  /\ ~statusDone
  /\ \E gbp_data \in ScrapeGbps :
       /\ statusGbp' = gbp_data
       /\ statusWebsite' = WebsiteOfScrape(callResult)
       /\ statusYext' = YextInitial
       /\ statusResult' =
            determine_match_status(gbp_data, WebsiteOfScrape(callResult),
                                   YextInitial)
  /\ statusDone' = TRUE
  /\ UNCHANGED <<searchVars, batchVars, wsgiVars, callVars>>
  /\ UNCHANGED <<taskVars, apiVars>>

ScrapeNext == CallScrapeWebsiteInfo \/ ReconcileScraped

SpecScrape == ScrapeInit /\ [][ScrapeNext]_vars

\* the scrape was made and returned website_data
ScrapeSucceeded ==
  callName = "scrape_website_info" /\ callResult # NoneDict

\* the object of the ld+json script of the scraped page, when it has one
ScrapedRecord == callArgs[2].scripts[1].data

\* the scraped page embeds a record that is of a business type or has no
\* type marker at all
EmbedsBusinessRecord ==
  /\ ScrapeSucceeded
  /\ callArgs[2].scripts # << >>
  /\ callArgs[2].scripts[1].kind = "object"
  /\ \/ ScrapedRecord.type = None
     \/ Contains(ScrapedRecord.type, <<"B","u","s","i","n","e","s","s">>)

\* the record writes 'telePhone', or lacks '@context', or lacks '@type'
NonConformant ==
  \/ ScrapedRecord.telePhone # None
  \/ ~ScrapedRecord.hasContext
  \/ ScrapedRecord.type = None

(***************************************************************************)
(* C25: every format non-conformance of an embedded business               *)
(* structured-data record (the miswritten key 'telePhone', a missing       *)
(* '@context' marker, a missing '@type' marker) is reported as a           *)
(* formatting issue: it yields a non-empty formatting_error and the        *)
(* category 'Fix Schema Formatting' in the audit status, whether or not    *)
(* the record's address and phone match the reference.                     *)
(***************************************************************************)
C25_NonConformanceReported ==
  (statusDone /\ EmbedsBusinessRecord /\ NonConformant) =>
    /\ callResult.schema.formatting_error # Empty
    /\ IssueSchemaFormatting \in Range(StatusCategories)

\* what extract_schema_data returns for a page without scripts
SchemaOfNoScript == extract_schema_data(<< >>)

(***************************************************************************)
(* C29: after a successful scrape_website_info, the website address equals *)
(* the structured-data address and the website phone equals the            *)
(* structured-data phone whenever the structured-data value is non-empty;  *)
(* since extract_schema_data defaults both to 'Not available', the         *)
(* text-pattern fallbacks for address and phone run only when the          *)
(* structured-data value is the empty string.                              *)
(***************************************************************************)
C29_SchemaValuesFirst ==
  ScrapeSucceeded =>
    /\ callResult.schema.address # Empty
         => callResult.address = callResult.schema.address
    /\ callResult.schema.phone # Empty
         => callResult.phone = callResult.schema.phone
    /\ callResult.schema.address = Empty
         => callResult.address = AddressFallback(callArgs[2])
    /\ callResult.schema.phone = Empty
         => callResult.phone = PhoneFallback(callArgs[2])
    /\ SchemaOfNoScript.address = NotAvailable
    /\ SchemaOfNoScript.phone = NotAvailable
    /\ (callArgs[2].scripts = << >> /\ callArgs[2].addressMatch # None)
         => callResult.address = SchemaOfNoScript.address
    /\ (callArgs[2].scripts = << >> /\ callArgs[2].phoneMatch # None)
         => callResult.phone = SchemaOfNoScript.phone

\* the page has no structured data and its text holds an address and a
\* phone, yet the website values are the defaults of the structured data
C29_Witness ==
  /\ ScrapeSucceeded
  /\ callArgs[2].scripts = << >>
  /\ callArgs[2].addressMatch # None
  /\ callArgs[2].phoneMatch # None
  /\ AddressFallback(callArgs[2]) # Empty
  /\ PhoneFallback(callArgs[2]) # Empty
  /\ callResult.address = NotAvailable
  /\ callResult.phone = NotAvailable

(***************************************************************************)
(* Several process_audit_batch tasks at once.  A task is a sequence of     *)
(* steps (the construction of its auditor, one step per business, the      *)
(* return) and the steps of different tasks interleave in every order.     *)
(***************************************************************************)

\* the business name the batch of each task repeats
TaskQueryList == <<QueryAcmePlumbing, QueryAcmeMidMO, QueryHomeHelpers>>

TaskQueries(t) == {TaskQueryList[t]}

AllTaskQueries == UNION {TaskQueries(t) : t \in Tasks}

TaskBatches(t) == SeqsUpTo(TaskQueries(t), MaxBatch) \ {<< >>}

\* what the Places request, the listings service and the browser do for one
\* business of a concurrent task
TaskResponses == {ResponsePlaces(<<PlaceAcmeColumbia>>)}

TaskServices == {YextService(FALSE, 500, << >>)}

TaskPages == {PageAcme}

\* nap.py lines 836-857: the row process_business appends
BusinessRow(business_name, gbp_data, website_data, yext_data) ==
  LET status == determine_match_status(gbp_data, website_data, yext_data)
  IN AuditRow(business_name, gbp_data, website_data, yext_data, status[1],
              status[2])

\* nap.py lines 743-857: process_business as one step, from what the Places
\* request, the listings service and the browser answer
process_business(business_name, response, service, page) ==
  BusinessRow(
    business_name,
    GbpOfSearch(search_google_place(business_name, response)),
    IF ShouldScrape(UrlOfSearch(search_google_place(business_name, response)))
      THEN WebsiteOfScrape(scrape_website_info(
             UrlOfSearch(search_google_place(business_name, response)), page))
      ELSE WebsiteInitial,
    YextOfLookup(
      search_yext(business_name,
                  GbpOfSearch(search_google_place(business_name,
                                                  response)).website,
                  service),
      YextInitial))

\* one auditor for all the tasks
AuditorOf_Mutant(t) == 1

\* tasks.py line 82: auditor = NAPAuditor(), an instance of its own for
\* every run of the task
AuditorOf(t) == t

TasksInit ==
  /\ SearchIdle
  /\ StatusIdle
  /\ BatchIdle
  /\ WsgiIdle
  /\ CallIdle
  /\ ApiIdle
  /\ task_business_names \in
       {b \in [Tasks -> UNION {TaskBatches(t) : t \in Tasks}] :
          \A t \in Tasks : b[t] \in TaskBatches(t)}
  /\ task_pc = [t \in Tasks |-> "queued"]
  /\ task_index = [t \in Tasks |-> 1]
  /\ task_auditor = [t \in Tasks |-> 0]
  /\ task_results = [t \in Tasks |-> << >>]
  /\ task_return = [t \in Tasks |-> None]
  /\ instance_results = [a \in Tasks |-> << >>]

\* tasks.py lines 76-83 and nap.py lines 31-34: the task starts, constructs
\* its auditor, whose results are an empty list, and its own empty list
TaskConstruct(t) ==
  /\ task_pc[t] = "queued"
  /\ task_auditor' = [task_auditor EXCEPT ![t] = AuditorOf(t)]
  /\ instance_results' = [instance_results EXCEPT ![AuditorOf(t)] = << >>]
  /\ task_results' = [task_results EXCEPT ![t] = << >>]
  /\ task_pc' =
       [task_pc EXCEPT ![t] = AfterBusiness(task_business_names[t], 0)]
  /\ UNCHANGED <<task_business_names, task_index, task_return>>
  /\ UNCHANGED <<searchVars, statusVars, batchVars, wsgiVars, callVars>>
  /\ UNCHANGED apiVars

\* tasks.py lines 85-89: process_business appends the row of the business
\* to the results of the auditor of the task
TaskProcessBusiness(t) ==
  /\ task_pc[t] = "search"
  /\ \E response \in TaskResponses, service \in TaskServices,
        page \in TaskPages :
       instance_results' =
         [instance_results EXCEPT ![task_auditor[t]] =
            Append(@, process_business(
                        task_business_names[t][task_index[t]], response,
                        service, page))]
  /\ task_index' = [task_index EXCEPT ![t] = @ + 1]
  /\ task_pc' =
       [task_pc EXCEPT ![t] =
          AfterBusiness(task_business_names[t], task_index[t])]
  /\ UNCHANGED <<task_business_names, task_auditor, task_results,
                 task_return>>
  /\ UNCHANGED <<searchVars, statusVars, batchVars, wsgiVars, callVars>>
  /\ UNCHANGED apiVars

\* tasks.py lines 90-110: process_business raised, the error row joins the
\* list of the task
TaskRaise(t) ==
  /\ task_pc[t] = "search"
  /\ \E message \in BatchErrors :
       task_results' =
         [task_results EXCEPT ![t] =
            Append(@, ErrorRow(task_business_names[t][task_index[t]],
                               message))]
  /\ task_index' = [task_index EXCEPT ![t] = @ + 1]
  /\ task_pc' =
       [task_pc EXCEPT ![t] =
          AfterBusiness(task_business_names[t], task_index[t])]
  /\ UNCHANGED <<task_business_names, task_auditor, task_return,
                 instance_results>>
  /\ UNCHANGED <<searchVars, statusVars, batchVars, wsgiVars, callVars>>
  /\ UNCHANGED apiVars

\* tasks.py lines 112-119: the error rows join the results of the auditor,
\* which the task returns
TaskReturn(t) ==
  /\ task_pc[t] = "extend"
  /\ instance_results' =
       [instance_results EXCEPT ![task_auditor[t]] =
          ExtendResults(@, task_results[t])]
  /\ task_return' =
       [task_return EXCEPT ![t] =
          ExtendResults(instance_results[task_auditor[t]], task_results[t])]
  /\ task_pc' = [task_pc EXCEPT ![t] = "returned"]
  /\ UNCHANGED <<task_business_names, task_index, task_auditor,
                 task_results>>
  /\ UNCHANGED <<searchVars, statusVars, batchVars, wsgiVars, callVars>>
  /\ UNCHANGED apiVars

TasksNext ==
  \E t \in Tasks :
    \/ TaskConstruct(t)
    \/ TaskProcessBusiness(t)
    \/ TaskRaise(t)
    \/ TaskReturn(t)

SpecTasks == TasksInit /\ [][TasksNext]_vars

(***************************************************************************)
(* C26: with several process_audit_batch tasks running at once, under      *)
(* every interleaving of their steps the list a task returns holds exactly *)
(* the rows of the businesses of its own batch: as many rows as the batch  *)
(* has names, for each name as many rows as the batch has entries of it,   *)
(* and no row of a name of another batch.                                  *)
(***************************************************************************)
C26_TasksKeepOwnRows ==
  \A t \in Tasks :
    task_pc[t] = "returned" =>
      /\ Len(task_return[t]) = Len(task_business_names[t])
      /\ \A n \in AllTaskQueries :
           Cardinality(RowsOf(task_return[t], n))
             = Cardinality(PositionsOf(task_business_names[t], n))

\* the first task has returned its two rows, one of them an error row, while
\* the second task is between its two businesses
C26_Witness ==
  /\ task_pc[1] = "returned"
  /\ task_business_names[1] = <<QueryAcmePlumbing, QueryAcmePlumbing>>
  /\ Len(task_return[1]) = 2
  /\ task_return[1][1].gbp_name = NameAcmePlumbing
  /\ task_return[1][2].match_status = TextError
  /\ task_pc[2] = "search"
  /\ task_index[2] = 2
  /\ Len(instance_results[task_auditor[2]]) = 1

(***************************************************************************)
(* yext.py make_api_request: the loop of up to max_attempts session.get    *)
(* calls.  One step is one pass through the try block (the request, the    *)
(* status check and the parse) or one pause before the next pass.          *)
(***************************************************************************)

\* the url arguments of the two callers, yext.py lines 115 and 155
ApiUrls == {"accounts", "entities"}

\* the documents response.json() returns
ApiDocuments == {[response |-> << >>], [response |-> <<"accountId">>]}

\* what one pass through the try block did: it returned a document, or
\* raised an exception of the class kind
Attempt(kind, document) == [kind |-> kind, json |-> document]

\* the exception classes that yext.py lines 97, 100 and 103 catch
RequestErrors == {"Timeout", "ConnectionError", "RequestException"}

\* one attempt more
max_attempts_Mutant == 3 + 1

\* yext.py line 91
max_attempts == 3

ApiInit ==
  /\ SearchIdle
  /\ StatusIdle
  /\ BatchIdle
  /\ WsgiIdle
  /\ CallIdle
  /\ TaskIdle
  /\ api_url \in ApiUrls
  /\ api_pc = "get"
  /\ api_attempt = 0
  /\ api_log = << >>
  /\ api_result = NoneDict
  /\ api_raised = "none"

\* yext.py lines 94-96: the request is answered, its status is no error and
\* its body parses; the document is returned
ApiReturn ==
  /\ api_pc = "get"
  /\ \E document \in ApiDocuments :
       /\ api_log' = Append(api_log, Attempt("ok", document))
       /\ api_result' = document
  /\ api_pc' = "returned"
  /\ UNCHANGED <<api_url, api_attempt, api_raised>>
  /\ UNCHANGED <<searchVars, statusVars, batchVars, wsgiVars, callVars>>
  /\ UNCHANGED taskVars

\* yext.py lines 97-99: requests.exceptions.Timeout
ApiTimeout ==
  /\ api_pc = "get"
  /\ api_log' = Append(api_log, Attempt("Timeout", NoneDict))
  /\ api_pc' = "sleep"
  /\ UNCHANGED <<api_url, api_attempt, api_result, api_raised>>
  /\ UNCHANGED <<searchVars, statusVars, batchVars, wsgiVars, callVars>>
  /\ UNCHANGED taskVars

\* yext.py lines 100-102: requests.exceptions.ConnectionError
ApiConnectionError ==
  /\ api_pc = "get"
  /\ api_log' = Append(api_log, Attempt("ConnectionError", NoneDict))
  /\ api_pc' = "sleep"
  /\ UNCHANGED <<api_url, api_attempt, api_result, api_raised>>
  /\ UNCHANGED <<searchVars, statusVars, batchVars, wsgiVars, callVars>>
  /\ UNCHANGED taskVars

\* yext.py lines 103-108: any other requests.exceptions.RequestException,
\* the HTTPError of raise_for_status among them; raised again on the last
\* attempt
ApiRequestException ==
  /\ api_pc = "get"
  /\ api_log' = Append(api_log, Attempt("RequestException", NoneDict))
  /\ IF api_attempt < max_attempts - 1
       THEN api_pc' = "sleep" /\ api_raised' = api_raised
       ELSE api_pc' = "raised" /\ api_raised' = "RequestException"
  /\ UNCHANGED <<api_url, api_attempt, api_result>>
  /\ UNCHANGED <<searchVars, statusVars, batchVars, wsgiVars, callVars>>
  /\ UNCHANGED taskVars

\* yext.py lines 93-108: an exception of a class that no except clause
\* names leaves the function at once
ApiOtherException ==
  /\ api_pc = "get"
  /\ api_log' = Append(api_log, Attempt("OtherException", NoneDict))
  /\ api_pc' = "raised"
  /\ api_raised' = "OtherException"
  /\ UNCHANGED <<api_url, api_attempt, api_result>>
  /\ UNCHANGED <<searchVars, statusVars, batchVars, wsgiVars, callVars>>
  /\ UNCHANGED taskVars

\* yext.py lines 99, 102, 106, then 92 and 110: the pause, then the next
\* attempt, or the exception that ends the call once range(max_attempts) is
\* used up
ApiSleep ==
  /\ api_pc = "sleep"
  /\ api_attempt' = api_attempt + 1
  /\ IF api_attempt + 1 < max_attempts
       THEN api_pc' = "get" /\ api_raised' = api_raised
       ELSE api_pc' = "raised" /\ api_raised' = "Exception"
  /\ UNCHANGED <<api_url, api_log, api_result>>
  /\ UNCHANGED <<searchVars, statusVars, batchVars, wsgiVars, callVars>>
  /\ UNCHANGED taskVars

ApiNext ==
  \/ ApiReturn
  \/ ApiTimeout
  \/ ApiConnectionError
  \/ ApiRequestException
  \/ ApiOtherException
  \/ ApiSleep

SpecApi == ApiInit /\ [][ApiNext]_vars

\* session.get is given a timeout and time.sleep(5) ends, so a call that can
\* take a step takes one
FairSpecApi == SpecApi /\ WF_vars(ApiNext)

\* the attempts made so far
AttemptsMade == Len(api_log)

\* the attempt made last was a failure of one of the three classes caught
LastFailed ==
  /\ AttemptsMade > 0
  /\ api_log[AttemptsMade].kind \in RequestErrors

\* the call has returned the document of its last attempt, the only one
\* that succeeded
ReturnedFirstSuccess ==
  /\ AttemptsMade > 0
  /\ api_log[AttemptsMade].kind = "ok"
  /\ api_result = api_log[AttemptsMade].json
  /\ \A k \in 1..(AttemptsMade - 1) : api_log[k].kind # "ok"

(***************************************************************************)
(* C30: a call of make_api_request makes at most 3 attempts; when it       *)
(* returns, it returns the document of the first attempt that succeeded    *)
(* and makes no attempt afterwards; a Timeout, ConnectionError or other    *)
(* RequestException on the first or second attempt is followed by one more *)
(* attempt; and after a third attempt that failed the call ends by raising *)
(* and stays so, without a returned value.                                 *)
(***************************************************************************)
C30_ThreeAttempts ==
  /\ [](AttemptsMade <= 3)
  /\ [](api_pc = "returned" => ReturnedFirstSuccess)
  /\ [][api_pc = "returned" => api_log' = api_log]_vars
  /\ \A k \in 1..2 :
       (AttemptsMade = k /\ LastFailed) ~> (AttemptsMade = k + 1)
  /\ (AttemptsMade = 3 /\ api_log[3].kind # "ok")
       ~> [](api_pc = "raised" /\ api_result = NoneDict)

\* three attempts failed in the three ways and the call has raised
C30_Witness ==
  /\ api_pc = "raised"
  /\ AttemptsMade = 3
  /\ api_log[1].kind = "Timeout"
  /\ api_log[2].kind = "RequestException"
  /\ api_log[3].kind = "ConnectionError"
  /\ api_raised = "Exception"
  /\ api_result = NoneDict

====
